---- MODULE Spec2Model ----
(***************************************************************************)
(* python-injection: the Locator (keyed registry of injectables with the   *)
(* mode conflict policy), the Module (scope) that composes its Locator     *)
(* with an ordered list of used Modules, lock checking and unlock, the     *)
(* events a Module dispatches to the Modules using it, and an injected     *)
(* function that listens to its Module.                                    *)
(*                                                                         *)
(* Modelled revision: src/injection/_core/module.py with the hooks of      *)
(* src/injection/_core/__init__.py.  Keys are the already standardised     *)
(* input classes.  A factory takes no dependency and returns a fresh       *)
(* object on every invocation; instance n is the n-th object made.         *)
(* Unbounded recursion over a cyclic used-graph is the outcome             *)
(* "RecursionError".                                                       *)
(***************************************************************************)
EXTENDS Integers, Sequences, FiniteSets, TLC

Modules == {"A", "B", "C"}
Keys == {"K1", "K2"}

\* bound on the number of factory invocations of one behaviour
MaxMade == 2

Modes == {"fallback", "normal", "override"}
Priorities == {"low", "high"}
InjectableKinds == {"SimpleInjectable", "SingletonInjectable", "ShouldBeInjectable"}

\* identities of the injectable objects alive at one time (per locator one
\* more than it has keys, so that a new one differs from all it stores)
InjIds == 1 .. (Cardinality(Modules) * (Cardinality(Keys) + 1))

VARIABLES
    records,       \* Locator.__records of each Module's locator: key -> Record
    kind,          \* class of each injectable object ("none": no such object)
    cache,         \* SingletonInjectable.cache["$instance"] (0: absent)
    made,          \* number of objects made by factories so far
    modules,       \* Module.__modules of each Module, in iteration order
    listeners,     \* Module.__channel listeners that are Modules
    lastOverride,  \* history: injectable of the latest override written per key
    dependencies,  \* InjectedFunction.__dependencies of the injected function
    scoped,        \* the use_temporarily block that is open
    pending,       \* the init_modules call that is running
    frames,        \* per thread: the call it is in and how far it has come
    lazy,          \* a Lazy object shared by the threads
    setup_queue,   \* InjectedFunction.__setup_queue of the injected function
    last           \* the latest call and what it returned or raised

vars == <<records, kind, cache, made, modules, listeners, lastOverride,
          dependencies, scoped, pending, frames, lazy, setup_queue, last>>

\* the state of the calls in progress other than a use_temporarily block
others == <<pending, frames, lazy, setup_queue>>

\* Queue() with the task put by Module.inject: the task is in the queue and
\* counts as unfinished; ran: how often a task was taken and called
NewQueue == [closed |-> FALSE, tasks |-> 1, unfinished |-> 1, ran |-> 0]

\* the queue once __setup has run through: join() has returned and
\* __close_setup_queue has set the attribute to None
ClosedQueue == [closed |-> TRUE, tasks |-> 0, unfinished |-> 0, ran |-> 1]

NoRecord == [inj |-> 0, mode |-> "none"]
Record(inj, mode) == [inj |-> inj, mode |-> mode]

NoEvent == [type |-> "none", classes |-> {}, mode |-> "none"]
LocatorDependenciesUpdated(classes, mode) ==
    [type |-> "LocatorDependenciesUpdated", classes |-> classes, mode |-> mode]

Found(inj) == [tag |-> "ok", inj |-> inj]
Raised(exc) == [tag |-> exc, inj |-> 0]

\* what a key of a registration held when the call was made
NotFound == [kind |-> "none", mode |-> "none"]

\* the parameters of the injected function, in the order of its signature
Parameters == <<"x", "y">>
Names == {Parameters[i] : i \in 1 .. Len(Parameters)}

\* arguments by name (0: the name has no argument)
NoArguments == [n \in Names |-> 0]

\* the injected function as a listener
TheFunction == "function"

\* no use_temporarily block is open
NoBlock == [m |-> "-", x |-> "-"]

\* no init_modules call is running
NoPending == [m |-> "-", state |-> "-", given |-> <<>>, before |-> <<>>,
              stop |-> <<>>, use |-> <<>>, events |-> <<>>,
              locked |-> [p \in Modules |-> "-"]]

\* the threads that call into the Module at the same time
Threads == {"T1", "T2"}

\* a thread that is in no call and has made none
NoFrame == [op |-> "-", pc |-> "idle", lock |-> "-", kind |-> "-",
            found |-> "-", inj |-> 0, inst |-> 0, x |-> "-", result |-> "-"]

\* Lazy(factory) after __init__: the generator has not been started
NewLazy == [state |-> "created", is_set |-> FALSE, cached |-> 0, calls |-> 0]

\* Dependencies.empty(): the value before the first update
Empty == [state |-> "empty", mapping |-> NoArguments]

\* Dependencies.resolve(...): a LazyMapping that has not been read
Unset == [state |-> "lazy", mapping |-> NoArguments]

\* the call recorded in `last`
Call(op, m) ==
    [op |-> op, m |-> m, k |-> "-", x |-> "-", priority |-> "-",
     keys |-> {}, mode |-> "-", kind |-> "-", accepted |-> {},
     found |-> [k \in Keys |-> NotFound],
     event |-> NoEvent, inj |-> 0, inst |-> 0, calls |-> FALSE,
     cleared |-> {}, heard |-> {}, recorded |-> {}, block |-> "-",
     begun |-> {}, ended |-> {}, raised |-> "-",
     explicit |-> NoArguments, arguments |-> NoArguments, built |-> FALSE,
     result |-> "ok"]

(***************************************************************************)
(* Mode and the on_conflict hooks                                          *)
(***************************************************************************)
rank(mode) ==
    CASE mode = "fallback" -> 0
      [] mode = "normal" -> 1
      [] mode = "override" -> 2

\* variant: only normal over normal is a conflict
check_mode_raises_normal_only(new, existing) ==
    new.mode = existing.mode /\ new.mode = "normal"

\* check_mode before its yield: the conflict error
check_mode_raises(new, existing) ==
    new.mode = existing.mode /\ new.mode # "override"

\* variant: the override flag is dropped from the returned value
check_mode_without_override(new, existing, value) ==
    value

\* check_mode after its yield
check_mode(new, existing, value) ==
    value \/ new.mode = "override"

\* variant: the comparison of the ranks is inverted
compare_mode_rank_inverted(new, existing, value) ==
    value \/ rank(new.mode) < rank(existing.mode)

compare_mode_rank(new, existing, value) ==
    value \/ rank(new.mode) > rank(existing.mode)

\* Locator.__keep_new_record: handler (lambda: False) wrapped by check_mode,
\* then by compare_mode_rank
keep_new_record(new, existing) ==
    IF check_mode_raises(new, existing)
    THEN "RuntimeError"
    ELSE IF compare_mode_rank(new, existing, check_mode(new, existing, FALSE))
         THEN "keep"
         ELSE "skip"

\* variant: every class is yielded, also one whose Record is to be kept
prepare_for_updating_without_continue(recs, classes, record) ==
    IF \E cls \in classes :
          recs[cls] # NoRecord /\ keep_new_record(record, recs[cls]) = "RuntimeError"
    THEN [tag |-> "RuntimeError", classes |-> {}]
    ELSE [tag |-> "ok", classes |-> classes]

\* variant: a class in conflict is left out and the others are written
prepare_for_updating_skipping_conflicts(recs, classes, record) ==
    [tag |-> "ok",
     classes |-> {cls \in classes :
                     recs[cls] = NoRecord
                     \/ keep_new_record(record, recs[cls]) = "keep"}]

\* Locator.__prepare_for_updating, consumed whole by dict(...)
prepare_for_updating(recs, classes, record) ==
    IF \E cls \in classes :
          recs[cls] # NoRecord /\ keep_new_record(record, recs[cls]) = "RuntimeError"
    THEN [tag |-> "RuntimeError", classes |-> {}]
    ELSE [tag |-> "ok",
          classes |-> {cls \in classes :
                          recs[cls] = NoRecord
                          \/ keep_new_record(record, recs[cls]) = "keep"}]

(***************************************************************************)
(* Injectables                                                             *)
(***************************************************************************)
injectable_is_locked(inj) ==
    IF kind[inj] = "SingletonInjectable" THEN cache[inj] # 0 ELSE FALSE

\* Locator.__injectables
injectables(m) == {records[m][k].inj : k \in {c \in Keys : records[m][c] # NoRecord}}

\* Locator.is_locked
locator_is_locked(m) ==
    IF \E inj \in injectables(m) : injectable_is_locked(inj) THEN "true" ELSE "false"

\* the inputs of a lookup: a class, a union of classes, an optional class
\* and a parameterized generic class
Inputs == Keys \cup {"K1 | K2", "K1 | None", "K2[T]"}

\* the classes of a union in the order they are written (None is no class)
UnionArgs(cls) ==
    CASE cls = "K1 | K2" -> <<"K1", "K2">>
      [] cls = "K1 | None" -> <<"K1">>
      [] OTHER -> <<>>

\* the origin of a parameterized generic class
Origin(cls) == IF cls = "K2[T]" THEN "K2" ELSE cls

\* standardize_types(cls, with_origin = ...): a union is unwrapped into its
\* classes, None is dropped, a parameterized class is followed by its origin
standardize_types(cls, with_origin) ==
    CASE UnionArgs(cls) # <<>> -> UnionArgs(cls)
      [] Origin(cls) # cls /\ with_origin -> <<cls, Origin(cls)>>
      [] OTHER -> <<cls>>

\* Locator.__standardize_inputs with the on_input hook
\* standardize_input_classes
standardize_inputs(cls) == standardize_types(cls, TRUE)

\* input_class in self.__records; only classes are registered
InRecords(m, c) == c \in Keys /\ records[m][c] # NoRecord

\* Locator.__getitem__
locator_getitem(m, cls) ==
    LET found == SelectSeq(standardize_inputs(cls), LAMBDA c : InRecords(m, c))
    IN  IF found # <<>> THEN Found(records[m][Head(found)].inj)
        ELSE Raised("NoInjectable")

\* variant: only the first of the input classes is looked at
locator_contains_first_only(m, cls) ==
    InRecords(m, Head(standardize_inputs(cls)))

\* Locator.__contains__
locator_contains(m, cls) ==
    \E i \in 1 .. Len(standardize_inputs(cls)) :
        InRecords(m, standardize_inputs(cls)[i])

(***************************************************************************)
(* Module as a Broker                                                      *)
(***************************************************************************)
\* Module.__brokers: the used modules in order; the locator comes after them
brokers(m) == modules[m]

RECURSIVE module_is_locked(_, _)
RECURSIVE any_is_locked(_, _)
\* any(broker.is_locked for broker in the modules part of __brokers)
any_is_locked(seq, path) ==
    IF seq = <<>> THEN "false"
    ELSE LET r == module_is_locked(Head(seq), path)
         IN IF r = "false" THEN any_is_locked(Tail(seq), path) ELSE r

\* Module.is_locked; path: the modules whose is_locked is being evaluated
module_is_locked(m, path) ==
    IF m \in path THEN "RecursionError"
    ELSE LET r == any_is_locked(brokers(m), path \cup {m})
         IN IF r = "false" THEN locator_is_locked(m) ELSE r

is_locked(m) == module_is_locked(m, {})

RECURSIVE module_getitem(_, _, _)
RECURSIVE first_getitem(_, _, _)
first_getitem(seq, cls, path) ==
    IF seq = <<>> THEN Raised("NoInjectable")
    ELSE LET r == module_getitem(Head(seq), cls, path)
         IN IF r.tag = "NoInjectable" THEN first_getitem(Tail(seq), cls, path) ELSE r

\* Module.__getitem__
module_getitem(m, cls, path) ==
    IF m \in path THEN Raised("RecursionError")
    ELSE LET r == first_getitem(brokers(m), cls, path \cup {m})
         IN IF r.tag = "NoInjectable" THEN locator_getitem(m, cls) ELSE r

getitem(m, cls) == module_getitem(m, cls, {})

RECURSIVE module_contains(_, _, _)
RECURSIVE any_contains(_, _, _)
\* any(cls in broker for broker in the modules part of __brokers)
any_contains(seq, cls, path) ==
    IF seq = <<>> THEN "false"
    ELSE LET r == module_contains(Head(seq), cls, path)
         IN IF r = "false" THEN any_contains(Tail(seq), cls, path) ELSE r

\* Module.__contains__
module_contains(m, cls, path) ==
    IF m \in path THEN "RecursionError"
    ELSE LET r == any_contains(brokers(m), cls, path \cup {m})
         IN IF r = "false"
            THEN (IF locator_contains(m, cls) THEN "true" ELSE "false")
            ELSE r

contains(m, cls) == module_contains(m, cls, {})

(***************************************************************************)
(* Module.dispatch: __check_locking, then EventChannel.dispatch enters the *)
(* on_event context of every listener.  The listeners of a Module are the  *)
(* Modules using it, each of which re-dispatches a ModuleEventProxy, and   *)
(* the injected function once it is set up.  They are iterated in the      *)
(* WeakSet's order, so a run is one order; it ends at the first listener   *)
(* that raises.  heard: the listeners whose on_event has been entered.     *)
(***************************************************************************)
\* variant: the lock check is left out
check_locking_left_out(m) ==
    "ok"

check_locking(m) ==
    LET locked == is_locked(m)
    IN  CASE locked = "true" -> "ModuleLockError"
          [] locked = "RecursionError" -> "RecursionError"
          [] OTHER -> "ok"

\* the Module the function was injected from: module.inject(wrapped)
FunctionModule == "A"

\* the setup of the function (update, then add_listener) runs on its first
\* call, and its dependencies are never Empty afterwards
function_listens == dependencies.state # "empty"

\* variant: a Module does not listen to the Modules it uses
channel_listeners_function_only(m) ==
    IF m = FunctionModule /\ function_listens THEN {TheFunction} ELSE {}

\* EventChannel.__listeners of the Module's channel
channel_listeners(m) ==
    listeners[m] \cup (IF m = FunctionModule /\ function_listens
                       THEN {TheFunction} ELSE {})

\* heard: the listeners whose on_event has been called; begun: those whose
\* context has been entered (on_event has returned at its yield); ended:
\* those whose context has been exited; raised: the Module whose lock check
\* raised
Run(tag, heard, begun, ended, raised) ==
    [tag |-> tag, heard |-> heard, begun |-> begun, ended |-> ended,
     raised |-> raised]

\* variant: the contexts are entered without an ExitStack
exit_stack_leaking(entered) ==
    {}

\* ExitStack.__exit__: every context entered is exited
exit_stack(entered) ==
    entered

RECURSIVE dispatch_runs(_, _)
RECURSIVE channel_dispatch(_, _)
\* EventChannel.dispatch over the listeners still to be entered; when a
\* listener raises, the ExitStack exits the contexts entered before it
channel_dispatch(todo, path) ==
    IF todo = {} THEN {Run("ok", {}, {}, {}, "-")}
    ELSE UNION {
           LET entered == IF p = TheFunction THEN {Run("ok", {}, {}, {}, "-")}
                          ELSE dispatch_runs(p, path)
           IN  UNION {
                 IF r.tag # "ok"
                 THEN {Run(r.tag, {p} \cup r.heard, r.begun, r.ended, r.raised)}
                 ELSE {Run(s.tag, {p} \cup r.heard \cup s.heard,
                           {p} \cup r.begun \cup s.begun,
                           IF s.tag # "ok"
                           THEN s.ended \cup exit_stack({p} \cup r.begun)
                           ELSE {},
                           s.raised) :
                          s \in channel_dispatch(todo \ {p}, path)}
                 : r \in entered}
           : p \in todo}

\* path: the Modules whose dispatch is being entered
dispatch_runs(m, path) ==
    LET checked == check_locking(m)
    IN  IF checked # "ok" THEN {Run(checked, {}, {}, {}, m)}
        ELSE channel_dispatch(channel_listeners(m) \ (path \cup {m}), path \cup {m})

\* the contexts exited when the with statement of the dispatch is left,
\* by its block having run or raised (run.tag is ok) or by a listener
\* having raised
closed(run) ==
    IF run.tag = "ok" THEN exit_stack(run.begun) ELSE run.ended

dispatch(m) == dispatch_runs(m, {})

\* variant: update reads the new mapping at once
updated_eagerly(heard) ==
    IF TheFunction \in heard THEN [Unset EXCEPT !.state = "set"]
    ELSE dependencies

\* variant: on_event returns None for every event
updated_never(heard) ==
    dependencies

\* InjectedFunction.on_event after its yield: update(event.module), which
\* happens when the block of the dispatch has ended without exception
updated(heard) ==
    IF TheFunction \in heard THEN Unset ELSE dependencies

(***************************************************************************)
(* Injectable objects: allocation and collection                           *)
(***************************************************************************)
Stored(recs) == {recs[m][k].inj : m \in Modules, k \in Keys} \ {0}

\* update makes one injectable object per call and stores it in one locator
\* only; each locator names its objects from a block of its own
Block(m) ==
    LET n == Cardinality(Keys) + 1
        b == CASE m = "A" -> 0 [] m = "B" -> 1 [] OTHER -> 2
    IN  (b * n + 1) .. (b * n + n)

FreshInj(m) ==
    LET free == Block(m) \ Stored(records)
    IN  CHOOSE i \in free : \A j \in free : i <= j

\* objects no registry refers to any more are forgotten
Collect(f, recs, none) ==
    LET stored == Stored(recs)
    IN  [i \in InjIds |-> IF i \in stored THEN f[i] ELSE none]

(***************************************************************************)
(* Locator.update through Module.update (injectable, singleton,            *)
(* should_be_injectable)                                                   *)
(***************************************************************************)
update(m, classes, cls, mode) ==
    LET inj == FreshInj(m)
        record == Record(inj, mode)
        prepared == prepare_for_updating(records[m], classes, record)
        call == [Call("update", m) EXCEPT
                    !.keys = classes, !.mode = mode, !.kind = cls,
                    !.found = [k \in Keys |->
                                 IF k \in classes /\ records[m][k] # NoRecord
                                 THEN [kind |-> kind[records[m][k].inj],
                                       mode |-> records[m][k].mode]
                                 ELSE NotFound]]
    IN  IF prepared.tag # "ok"
        THEN /\ last' = [call EXCEPT !.result = prepared.tag]
             /\ UNCHANGED <<records, kind, cache, made, modules, listeners,
                            lastOverride, dependencies>>
        ELSE IF prepared.classes = {}
        THEN /\ last' = call
             /\ UNCHANGED <<records, kind, cache, made, modules, listeners,
                            lastOverride, dependencies>>
        ELSE \E run \in dispatch(m) :
               LET event == LocatorDependenciesUpdated(prepared.classes, mode)
                   answered == [call EXCEPT !.accepted = prepared.classes,
                                            !.event = event,
                                            !.heard = {m} \cup run.heard,
                                            !.begun = IF run.tag = "ok"
                                                      THEN {m} \cup run.begun
                                                      ELSE run.begun,
                                            !.ended = IF run.tag = "ok"
                                                      THEN exit_stack({m} \cup run.begun)
                                                      ELSE run.ended,
                                            !.raised = run.raised]
               IN  IF run.tag # "ok"
                   THEN /\ last' = [answered EXCEPT !.result = run.tag]
                        /\ UNCHANGED <<records, kind, cache, made, modules,
                                       listeners, lastOverride, dependencies>>
                   ELSE LET recs == [records EXCEPT ![m] =
                                        [k \in Keys |-> IF k \in prepared.classes
                                                        THEN record
                                                        ELSE records[m][k]]]
                        IN  /\ records' = recs
                            /\ kind' = Collect([kind EXCEPT ![inj] = cls], recs, "none")
                            /\ cache' = Collect([cache EXCEPT ![inj] = 0], recs, 0)
                            /\ lastOverride' =
                                 IF mode = "override"
                                 THEN [lastOverride EXCEPT ![m] =
                                         [k \in Keys |-> IF k \in prepared.classes
                                                         THEN inj
                                                         ELSE lastOverride[m][k]]]
                                 ELSE lastOverride
                            /\ dependencies' = updated(run.heard)
                            /\ last' = [answered EXCEPT
                                            !.inj = inj,
                                            !.recorded = {m} \cup run.heard]
                            /\ UNCHANGED <<made, modules, listeners>>

(***************************************************************************)
(* Module.find_instance and Module.get_instance                            *)
(***************************************************************************)
\* variant: a SimpleInjectable hands out the latest object again
injectable_get_instance_memoized(inj) ==
    CASE kind[inj] = "ShouldBeInjectable" ->
            [result |-> "InjectionError", inst |-> 0, calls |-> FALSE]
      [] kind[inj] = "SingletonInjectable" /\ cache[inj] # 0 ->
            [result |-> "ok", inst |-> cache[inj], calls |-> FALSE]
      [] kind[inj] = "SimpleInjectable" /\ made > 0 ->
            [result |-> "ok", inst |-> made, calls |-> FALSE]
      [] OTHER ->
            [result |-> "ok", inst |-> made + 1, calls |-> TRUE]

\* Injectable.get_instance of the three classes: what it returns or raises,
\* and whether it invokes the factory
injectable_get_instance(inj) ==
    CASE kind[inj] = "ShouldBeInjectable" ->
            [result |-> "InjectionError", inst |-> 0, calls |-> FALSE]
      [] kind[inj] = "SingletonInjectable" /\ cache[inj] # 0 ->
            [result |-> "ok", inst |-> cache[inj], calls |-> FALSE]
      [] OTHER ->
            [result |-> "ok", inst |-> made + 1, calls |-> TRUE]

\* injectable = self[cls]; return injectable.get_instance()
find_instance_outcome(m, cls) ==
    LET r == getitem(m, cls)
    IN  IF r.tag # "ok"
        THEN [result |-> r.tag, inj |-> 0, inst |-> 0, calls |-> FALSE]
        ELSE LET g == injectable_get_instance(r.inj)
             IN [result |-> g.result, inj |-> r.inj, inst |-> g.inst, calls |-> g.calls]

\* variant: except InjectionError instead of except KeyError
InjectionErrors == {"NoInjectable", "InjectionError"}

\* the exceptions that are KeyError: NoInjectable(KeyError, InjectionError)
\* and ModuleNotUsedError(KeyError, ModuleError)
KeyErrors == {"NoInjectable", "ModuleNotUsedError"}

\* try: return self.find_instance(cls) / except KeyError: return None
get_instance_outcome(m, cls) ==
    LET o == find_instance_outcome(m, cls)
    IN  IF o.result \in KeyErrors THEN [o EXCEPT !.result = "None"] ELSE o

\* variant: the instance of a SingletonInjectable is not kept
Resolution_without_cache(op, m, cls, o) ==
    /\ o.calls => made < MaxMade
    /\ made' = IF o.calls THEN made + 1 ELSE made
    /\ last' = [Call(op, m) EXCEPT !.k = cls, !.inj = o.inj, !.inst = o.inst,
                                   !.calls = o.calls, !.result = o.result]
    /\ UNCHANGED <<records, kind, cache, modules, listeners, lastOverride, dependencies>>

\* the step either call takes
Resolution(op, m, cls, o) ==
    /\ o.calls => made < MaxMade
    /\ made' = IF o.calls THEN made + 1 ELSE made
    /\ cache' = IF o.calls /\ kind[o.inj] = "SingletonInjectable"
                THEN [cache EXCEPT ![o.inj] = o.inst]
                ELSE cache
    /\ last' = [Call(op, m) EXCEPT !.k = cls, !.inj = o.inj, !.inst = o.inst,
                                   !.calls = o.calls, !.result = o.result]
    /\ UNCHANGED <<records, kind, modules, listeners, lastOverride, dependencies>>

find_instance(m, cls) ==
    Resolution("find_instance", m, cls, find_instance_outcome(m, cls))

get_instance(m, cls) ==
    Resolution("get_instance", m, cls, get_instance_outcome(m, cls))

(***************************************************************************)
(* Module.unlock: every broker in order, the locator last                  *)
(***************************************************************************)
RECURSIVE module_unlock(_, _)
RECURSIVE each_unlock(_, _)
each_unlock(seq, path) ==
    IF seq = <<>> THEN [tag |-> "ok", done |-> {}]
    ELSE LET r == module_unlock(Head(seq), path)
         IN IF r.tag # "ok" THEN r
            ELSE LET s == each_unlock(Tail(seq), path)
                 IN [tag |-> s.tag, done |-> r.done \cup s.done]

\* variant: only the own locator is unlocked
module_unlock_locator_only(m, path) ==
    [tag |-> "ok", done |-> {m}]

\* done: the Modules whose locator has been unlocked
module_unlock(m, path) ==
    IF m \in path THEN [tag |-> "RecursionError", done |-> {}]
    ELSE LET r == each_unlock(brokers(m), path \cup {m})
         IN IF r.tag # "ok" THEN r
            ELSE [tag |-> "ok", done |-> r.done \cup {m}]

unlock(m) ==
    LET r == module_unlock(m, {})
        unlocked == UNION {injectables(u) : u \in r.done}
    IN  /\ cache' = [i \in InjIds |-> IF i \in unlocked THEN 0 ELSE cache[i]]
        /\ last' = [Call("unlock", m) EXCEPT
                        !.result = r.tag,
                        !.cleared = {i \in unlocked : cache[i] # 0}]
        /\ UNCHANGED <<records, kind, made, modules, listeners, lastOverride, dependencies>>

(***************************************************************************)
(* Module.use, stop_using, change_priority                                 *)
(***************************************************************************)
Without(seq, x) == SelectSeq(seq, LAMBDA y : y # x)

\* variant: move_to_end(module) whatever the priority
move_module_to_end(seq, x, priority) ==
    Without(seq, x) \o <<x>>

\* OrderedDict.move_to_end(module, last = priority != HIGH)
move_module(seq, x, priority) ==
    IF priority = "high" THEN <<x>> \o Without(seq, x)
    ELSE Without(seq, x) \o <<x>>

\* variant: no Module is found in __modules
InUse_never(m, x) == FALSE

\* module in self.__modules
InUse(m, x) == \E i \in 1 .. Len(modules[m]) : modules[m][i] = x

\* variant: a listener reacts as soon as its on_event is called
use_reacting_at_once(m, x, priority) ==
    LET call == [Call("use", m) EXCEPT !.x = x, !.priority = priority]
    IN  IF x = m \/ InUse(m, x)
        THEN /\ last' = [call EXCEPT !.result = "ModuleError"]
             /\ UNCHANGED <<records, kind, cache, made, modules, listeners,
                            lastOverride, dependencies>>
        ELSE \E run \in dispatch(m) :
               IF run.tag # "ok"
               THEN /\ last' = [call EXCEPT !.result = run.tag,
                                            !.heard = run.heard, !.begun = run.begun,
                                            !.ended = closed(run), !.raised = run.raised,
                                            !.recorded = run.heard]
                    /\ dependencies' = updated(run.heard)
                    /\ UNCHANGED <<records, kind, cache, made, modules,
                                   listeners, lastOverride>>
               ELSE /\ modules' = [modules EXCEPT ![m] =
                                     move_module(Append(modules[m], x), x, priority)]
                    /\ listeners' = [listeners EXCEPT ![x] = @ \cup {m}]
                    /\ dependencies' = updated(run.heard)
                    /\ last' = [call EXCEPT !.heard = run.heard, !.begun = run.begun,
                                            !.ended = closed(run), !.raised = run.raised,
                                            !.recorded = run.heard]
                    /\ UNCHANGED <<records, kind, cache, made, lastOverride>>

\* variant: a Module that uses this one is refused
use_refusing_cycles(m, x, priority) ==
    LET call == [Call("use", m) EXCEPT !.x = x, !.priority = priority]
    IN  IF x = m \/ InUse(m, x) \/ InUse(x, m)
        THEN /\ last' = [call EXCEPT !.result = "ModuleError"]
             /\ UNCHANGED <<records, kind, cache, made, modules, listeners,
                            lastOverride, dependencies>>
        ELSE \E run \in dispatch(m) :
               IF run.tag # "ok"
               THEN /\ last' = [call EXCEPT !.result = run.tag,
                                            !.heard = run.heard, !.begun = run.begun,
                                            !.ended = closed(run), !.raised = run.raised]
                    /\ UNCHANGED <<records, kind, cache, made, modules, listeners,
                                   lastOverride, dependencies>>
               ELSE /\ modules' = [modules EXCEPT ![m] =
                                     move_module(Append(modules[m], x), x, priority)]
                    /\ listeners' = [listeners EXCEPT ![x] = @ \cup {m}]
                    /\ dependencies' = updated(run.heard)
                    /\ last' = [call EXCEPT !.heard = run.heard, !.begun = run.begun,
                                            !.ended = closed(run), !.raised = run.raised,
                                            !.recorded = run.heard]
                    /\ UNCHANGED <<records, kind, cache, made, lastOverride>>

\* variant: a Module may use itself
use_of_itself(m, x, priority) ==
    LET call == [Call("use", m) EXCEPT !.x = x, !.priority = priority]
    IN  IF InUse(m, x)
        THEN /\ last' = [call EXCEPT !.result = "ModuleError"]
             /\ UNCHANGED <<records, kind, cache, made, modules, listeners,
                            lastOverride, dependencies>>
        ELSE \E run \in dispatch(m) :
               IF run.tag # "ok"
               THEN /\ last' = [call EXCEPT !.result = run.tag,
                                            !.heard = run.heard, !.begun = run.begun,
                                            !.ended = closed(run), !.raised = run.raised]
                    /\ UNCHANGED <<records, kind, cache, made, modules, listeners,
                                   lastOverride, dependencies>>
               ELSE /\ modules' = [modules EXCEPT ![m] =
                                     move_module(Append(modules[m], x), x, priority)]
                    /\ listeners' = [listeners EXCEPT ![x] = @ \cup {m}]
                    /\ dependencies' = updated(run.heard)
                    /\ last' = [call EXCEPT !.heard = run.heard, !.begun = run.begun,
                                            !.ended = closed(run), !.raised = run.raised,
                                            !.recorded = run.heard]
                    /\ UNCHANGED <<records, kind, cache, made, lastOverride>>

use(m, x, priority) ==
    LET call == [Call("use", m) EXCEPT !.x = x, !.priority = priority]
    IN  IF x = m \/ InUse(m, x)
        THEN /\ last' = [call EXCEPT !.result = "ModuleError"]
             /\ UNCHANGED <<records, kind, cache, made, modules, listeners,
                            lastOverride, dependencies>>
        ELSE \E run \in dispatch(m) :
               IF run.tag # "ok"
               THEN /\ last' = [call EXCEPT !.result = run.tag,
                                            !.heard = run.heard, !.begun = run.begun,
                                            !.ended = closed(run), !.raised = run.raised]
                    /\ UNCHANGED <<records, kind, cache, made, modules,
                                   listeners, lastOverride, dependencies>>
               ELSE /\ modules' = [modules EXCEPT ![m] =
                                     move_module(Append(modules[m], x), x, priority)]
                    /\ listeners' = [listeners EXCEPT ![x] = @ \cup {m}]
                    /\ dependencies' = updated(run.heard)
                    /\ last' = [call EXCEPT !.heard = run.heard, !.begun = run.begun,
                                            !.ended = closed(run), !.raised = run.raised,
                                            !.recorded = run.heard]
                    /\ UNCHANGED <<records, kind, cache, made, lastOverride>>

\* variant: the KeyError of pop is not suppressed
stop_using_without_suppress(m, x) ==
    LET call == [Call("stop_using", m) EXCEPT !.x = x]
    IN  \E run \in dispatch(m) :
          IF run.tag # "ok"
          THEN /\ last' = [call EXCEPT !.result = run.tag,
                                       !.heard = run.heard, !.begun = run.begun,
                                       !.ended = closed(run), !.raised = run.raised]
               /\ UNCHANGED <<records, kind, cache, made, modules, listeners,
                              lastOverride, dependencies>>
          ELSE IF ~InUse(m, x)
          THEN /\ last' = [call EXCEPT !.result = "KeyError",
                                       !.heard = run.heard, !.begun = run.begun,
                                       !.ended = closed(run), !.raised = run.raised]
               /\ UNCHANGED <<records, kind, cache, made, modules, listeners,
                              lastOverride, dependencies>>
          ELSE /\ modules' = [modules EXCEPT ![m] = Without(modules[m], x)]
               /\ listeners' = [listeners EXCEPT ![x] = @ \ {m}]
               /\ dependencies' = updated(run.heard)
               /\ last' = [call EXCEPT !.heard = run.heard, !.begun = run.begun,
                                       !.ended = closed(run), !.raised = run.raised,
                                       !.recorded = run.heard]
               /\ UNCHANGED <<records, kind, cache, made, lastOverride>>

\* the KeyError of pop is suppressed; the dispatch comes before the pop, and
\* the KeyError ends the block of the dispatch before any listener reacts
stop_using(m, x) ==
    LET call == [Call("stop_using", m) EXCEPT !.x = x]
    IN  \E run \in dispatch(m) :
          IF run.tag # "ok"
          THEN /\ last' = [call EXCEPT !.result = run.tag,
                                       !.heard = run.heard, !.begun = run.begun,
                                       !.ended = closed(run), !.raised = run.raised]
               /\ UNCHANGED <<records, kind, cache, made, modules, listeners,
                              lastOverride, dependencies>>
          ELSE IF ~InUse(m, x)
          THEN /\ last' = [call EXCEPT !.heard = run.heard, !.begun = run.begun,
                                       !.ended = closed(run), !.raised = run.raised]
               /\ UNCHANGED <<records, kind, cache, made, modules, listeners,
                              lastOverride, dependencies>>
          ELSE /\ modules' = [modules EXCEPT ![m] = Without(modules[m], x)]
               /\ listeners' = [listeners EXCEPT ![x] = @ \ {m}]
               /\ dependencies' = updated(run.heard)
               /\ last' = [call EXCEPT !.heard = run.heard, !.begun = run.begun,
                                       !.ended = closed(run), !.raised = run.raised,
                                       !.recorded = run.heard]
               /\ UNCHANGED <<records, kind, cache, made, lastOverride>>

\* variant: a Module that is not used is inserted, as by __modules[module] = None
change_priority_inserting(m, x, priority) ==
    LET call == [Call("change_priority", m) EXCEPT !.x = x, !.priority = priority]
    IN  \E run \in dispatch(m) :
          IF run.tag # "ok"
          THEN /\ last' = [call EXCEPT !.result = run.tag,
                                       !.heard = run.heard, !.begun = run.begun,
                                       !.ended = closed(run), !.raised = run.raised]
               /\ UNCHANGED <<records, kind, cache, made, modules, listeners,
                              lastOverride, dependencies>>
          ELSE /\ modules' = [modules EXCEPT ![m] = move_module(modules[m], x, priority)]
               /\ dependencies' = updated(run.heard)
               /\ last' = [call EXCEPT !.heard = run.heard, !.begun = run.begun,
                                       !.ended = closed(run), !.raised = run.raised,
                                       !.recorded = run.heard]
               /\ UNCHANGED <<records, kind, cache, made, listeners, lastOverride>>

change_priority(m, x, priority) ==
    LET call == [Call("change_priority", m) EXCEPT !.x = x, !.priority = priority]
    IN  \E run \in dispatch(m) :
          IF run.tag # "ok"
          THEN /\ last' = [call EXCEPT !.result = run.tag,
                                       !.heard = run.heard, !.begun = run.begun,
                                       !.ended = closed(run), !.raised = run.raised]
               /\ UNCHANGED <<records, kind, cache, made, modules, listeners,
                              lastOverride, dependencies>>
          ELSE IF ~InUse(m, x)
          THEN /\ last' = [call EXCEPT !.result = "ModuleNotUsedError",
                                       !.heard = run.heard, !.begun = run.begun,
                                       !.ended = closed(run), !.raised = run.raised]
               /\ UNCHANGED <<records, kind, cache, made, modules, listeners,
                              lastOverride, dependencies>>
          ELSE /\ modules' = [modules EXCEPT ![m] = move_module(modules[m], x, priority)]
               /\ dependencies' = updated(run.heard)
               /\ last' = [call EXCEPT !.heard = run.heard, !.begun = run.begun,
                                       !.ended = closed(run), !.raised = run.raised,
                                       !.recorded = run.heard]
               /\ UNCHANGED <<records, kind, cache, made, listeners, lastOverride>>

(***************************************************************************)
(* Module.use_temporarily: a generator context manager, use before its     *)
(* yield and stop_using after it.  An exception of the body is thrown into *)
(* the generator at the yield, where nothing catches it.                   *)
(***************************************************************************)
\* __enter__: self.use(module, priority = priority); the block is entered
\* when use has returned
use_temporarily_enter(m, x, priority) ==
    /\ scoped = NoBlock
    /\ use(m, x, priority)
    /\ scoped' = IF last'.result = "ok" THEN [m |-> m, x |-> x] ELSE NoBlock
    /\ UNCHANGED others

\* __exit__ without exception: the generator resumes after the yield
use_temporarily_exit ==
    /\ scoped # NoBlock
    /\ stop_using(scoped.m, scoped.x)
    /\ scoped' = NoBlock
    /\ UNCHANGED others

\* __exit__ with the exception of the body: the generator ends at the yield
use_temporarily_throw ==
    /\ scoped # NoBlock
    /\ scoped' = NoBlock
    /\ last' = [Call("use_temporarily", scoped.m) EXCEPT
                    !.x = scoped.x, !.block = "throw", !.result = "BodyError"]
    /\ UNCHANGED <<records, kind, cache, made, modules, listeners,
                   lastOverride, dependencies, others>>

(***************************************************************************)
(* Module.init_modules: stop_using for every Module of tuple(__modules),   *)
(* then use, with the default priority, for every Module given.  pending   *)
(* is the call in progress: the Modules still to stop using and to use,    *)
(* the events of its calls that returned, and, for the properties, the     *)
(* used list and is_locked of every Module when the call was made.  The    *)
(* call ends at the first of its calls that raises.                        *)
(***************************************************************************)
\* Priority.get_default()
DefaultPriority == "low"

\* bound on the number of Modules given to one init_modules
MaxGiven == 2

RECURSIVE SeqsUpTo(_, _)
SeqsUpTo(S, n) ==
    IF n = 0 THEN {<<>>}
    ELSE LET shorter == SeqsUpTo(S, n - 1)
         IN  shorter \cup {Append(q, x) : q \in shorter, x \in S}

\* *modules: any Modules, the Module itself and repetitions included
GivenLists == SeqsUpTo(Modules, MaxGiven)

\* variant: the Modules used before are kept
init_modules_keeping(m, given) ==
    /\ pending = NoPending
    /\ pending' = [m |-> m,
                   state |-> IF given = <<>> THEN "returned" ELSE "running",
                   given |-> given, before |-> modules[m],
                   stop |-> <<>>, use |-> given, events |-> <<>>,
                   locked |-> [p \in Modules |-> is_locked(p)]]
    /\ last' = Call("init_modules", m)
    /\ UNCHANGED <<records, kind, cache, made, modules, listeners,
                   lastOverride, dependencies, scoped, frames, lazy,
                   setup_queue>>

init_modules_call(m, given) ==
    /\ pending = NoPending
    /\ pending' = [m |-> m,
                   state |-> IF modules[m] = <<>> /\ given = <<>>
                             THEN "returned" ELSE "running",
                   given |-> given, before |-> modules[m],
                   stop |-> modules[m], use |-> given, events |-> <<>>,
                   locked |-> [p \in Modules |-> is_locked(p)]]
    /\ last' = Call("init_modules", m)
    /\ UNCHANGED <<records, kind, cache, made, modules, listeners,
                   lastOverride, dependencies, scoped, frames, lazy,
                   setup_queue>>

\* the next call of the two loops
init_modules_step ==
    /\ pending.state = "running"
    /\ IF pending.stop # <<>>
       THEN /\ stop_using(pending.m, Head(pending.stop))
            /\ pending' =
                 [pending EXCEPT
                    !.stop = Tail(@),
                    !.events = IF last'.result = "ok"
                               THEN Append(@, [type |-> "removed",
                                               x |-> Head(pending.stop)])
                               ELSE @,
                    !.state = IF last'.result # "ok" THEN last'.result
                              ELSE IF Tail(pending.stop) = <<>> /\ pending.use = <<>>
                              THEN "returned" ELSE "running"]
       ELSE /\ use(pending.m, Head(pending.use), DefaultPriority)
            /\ pending' =
                 [pending EXCEPT
                    !.use = Tail(@),
                    !.events = IF last'.result = "ok"
                               THEN Append(@, [type |-> "added",
                                               x |-> Head(pending.use)])
                               ELSE @,
                    !.state = IF last'.result # "ok" THEN last'.result
                              ELSE IF Tail(pending.use) = <<>>
                              THEN "returned" ELSE "running"]
    /\ UNCHANGED <<scoped, frames, lazy,
                   setup_queue>>

\* return self, or the exception of the call that raised
init_modules_return ==
    /\ pending.state \notin {"-", "running"}
    /\ pending' = NoPending
    /\ last' = [Call("init_modules", pending.m) EXCEPT
                    !.result = IF pending.state = "returned"
                               THEN "ok" ELSE pending.state]
    /\ UNCHANGED <<records, kind, cache, made, modules, listeners,
                   lastOverride, dependencies, scoped, frames, lazy,
                   setup_queue>>

(***************************************************************************)
(* Specifications                                                          *)
(***************************************************************************)
Init ==
    /\ records = [m \in Modules |-> [k \in Keys |-> NoRecord]]
    /\ kind = [i \in InjIds |-> "none"]
    /\ cache = [i \in InjIds |-> 0]
    /\ made = 0
    /\ modules = [m \in Modules |-> <<>>]
    /\ listeners = [m \in Modules |-> {}]
    /\ lastOverride = [m \in Modules |-> [k \in Keys |-> 0]]
    /\ dependencies = Empty
    /\ scoped = NoBlock
    /\ pending = NoPending
    /\ frames = [t \in Threads |-> NoFrame]
    /\ lazy = NewLazy
    /\ setup_queue = NewQueue
    /\ last = Call("init", "-")

\* Module.injectable / Module.singleton with on = classes
Injectable(m) ==
    \E classes \in SUBSET Keys \ {{}}, mode \in Modes,
       cls \in {"SimpleInjectable", "SingletonInjectable"} :
        update(m, classes, cls, mode) /\ UNCHANGED <<scoped, others>>

\* Module.should_be_injectable: classes = (wp,), mode = FALLBACK
ShouldBeInjectable(m) ==
    \E k \in Keys :
        update(m, {k}, "ShouldBeInjectable", "fallback") /\ UNCHANGED <<scoped, others>>

FindInstance(m) == \E k \in Keys : find_instance(m, k) /\ UNCHANGED <<scoped, others>>
GetInstance(m) == \E k \in Keys : get_instance(m, k) /\ UNCHANGED <<scoped, others>>
Unlock(m) == unlock(m) /\ UNCHANGED <<scoped, others>>
Use(m) ==
    \E x \in Modules, priority \in Priorities :
        use(m, x, priority) /\ UNCHANGED <<scoped, others>>
StopUsing(m) == \E x \in Modules : stop_using(m, x) /\ UNCHANGED <<scoped, others>>
ChangePriority(m) ==
    \E x \in Modules, priority \in Priorities :
        change_priority(m, x, priority) /\ UNCHANGED <<scoped, others>>

\* the key the scopes of Spec bind
ScopeKey == "K1"

Register(m) ==
    \E cls \in {"SimpleInjectable", "SingletonInjectable"} :
        update(m, {ScopeKey}, cls, "normal") /\ UNCHANGED <<scoped, others>>
Resolve(m) == find_instance(m, ScopeKey) /\ UNCHANGED <<scoped, others>>

\* one Module and its Locator
NextRegistry ==
    \/ Injectable("A")
    \/ ShouldBeInjectable("A")
    \/ FindInstance("A")
    \/ GetInstance("A")
    \/ Unlock("A")

SpecRegistry == Init /\ [][NextRegistry]_vars

\* the Modules whose registry receives registrations in Spec, and the
\* Modules that compose others
Binders == {"A", "C"}
Composers == {"A", "B"}

\* three Modules that use one another
Next ==
    \/ \E m \in Modules :
        \/ Resolve(m)
        \/ Unlock(m)
    \/ \E m \in Binders :
        Register(m)
    \/ \E m \in Composers :
        \/ Use(m)
        \/ StopUsing(m)
        \/ ChangePriority(m)

Spec == Init /\ [][Next]_vars

(***************************************************************************)
(* Threads.  A thread can be suspended between any two bytecodes, so a     *)
(* call is a sequence of steps, each of them one read or one write of      *)
(* shared state.  The threads register and resolve ScopeKey on one Module  *)
(* and force one Lazy object.                                              *)
(***************************************************************************)
\* synchronized(): `lock = RLock(); with lock: yield lock`.  The lock is an
\* object made by the call that acquires it: the lock of thread t's call
synchronized(t) == t

\* the lock is held by no other thread
Acquirable(t, lock) == \A u \in Threads \ {t} : frames[u].lock # lock

\* the thread is in no call
Returned(t) == frames[t].pc \in {"idle", "done"}

\* the injectable object Updater.make_record makes in thread t: one that is
\* neither stored nor held by the call of another thread
make_record(t, m) ==
    LET free == {i \in Block(m) :
                    /\ kind[i] = "none"
                    /\ \A u \in Threads \ {t} : frames[u].inj # i}
    IN  CHOOSE i \in free : \A j \in free : i <= j

\* Locator.update, entered through @synchronized(), up to
\* records = dict(self.__prepare_for_updating(updater.classes, record))
update_prepare(t, m, cls) ==
    LET lock == synchronized(t)
        inj == make_record(t, m)
        prepared == prepare_for_updating(records[m], {ScopeKey}, Record(inj, "normal"))
        frame == [NoFrame EXCEPT
                     !.op = "update", !.kind = cls,
                     !.found = IF records[m][ScopeKey] = NoRecord THEN "none"
                               ELSE records[m][ScopeKey].mode]
    IN  /\ Returned(t)
        /\ Acquirable(t, lock)
        /\ frames' = [frames EXCEPT ![t] =
               IF prepared.tag # "ok"
               THEN [frame EXCEPT !.pc = "done", !.result = prepared.tag]
               ELSE IF prepared.classes = {}
               THEN [frame EXCEPT !.pc = "done", !.result = "ok"]
               ELSE [frame EXCEPT !.pc = "write", !.lock = lock, !.inj = inj]]
        /\ UNCHANGED <<records, kind, cache, made, modules, listeners,
                       lastOverride, dependencies, lazy>>

\* Locator.update from `with self.dispatch(event)` on:
\* self.__records.update(records), then the lock is released
update_write(t, m) ==
    LET frame == frames[t]
    IN  /\ frame.op = "update" /\ frame.pc = "write"
        /\ \E run \in dispatch(m) :
              IF run.tag # "ok"
              THEN /\ frames' = [frames EXCEPT ![t] =
                         [frame EXCEPT !.pc = "done", !.lock = "-", !.result = run.tag]]
                   /\ UNCHANGED <<records, kind, cache, dependencies>>
              ELSE /\ records' = [records EXCEPT ![m][ScopeKey] =
                                     Record(frame.inj, "normal")]
                   /\ kind' = [kind EXCEPT ![frame.inj] = frame.kind]
                   /\ cache' = [cache EXCEPT ![frame.inj] = 0]
                   /\ dependencies' = updated(run.heard)
                   /\ frames' = [frames EXCEPT ![t] =
                         [frame EXCEPT !.pc = "done", !.lock = "-", !.result = "ok"]]
        /\ UNCHANGED <<made, modules, listeners, lastOverride, lazy>>

\* Module.find_instance: injectable = self[cls], then get_instance() up to
\* the read of the cache (`with suppress(KeyError): return self.cache[key]`)
get_instance_read(t, m) ==
    LET r == getitem(m, ScopeKey)
        frame == [NoFrame EXCEPT !.op = "find_instance", !.inj = r.inj]
    IN  /\ Returned(t)
        /\ frames' = [frames EXCEPT ![t] =
               CASE r.tag # "ok" ->
                       [frame EXCEPT !.pc = "done", !.result = r.tag]
                 [] r.tag = "ok" /\ kind[r.inj] = "ShouldBeInjectable" ->
                       [frame EXCEPT !.pc = "done", !.result = "InjectionError"]
                 [] r.tag = "ok" /\ kind[r.inj] = "SingletonInjectable"
                                /\ cache[r.inj] # 0 ->
                       [frame EXCEPT !.pc = "done", !.result = "ok",
                                     !.inst = cache[r.inj]]
                 [] OTHER ->
                       [frame EXCEPT !.pc = "factory", !.kind = kind[r.inj]]]
        /\ UNCHANGED <<records, kind, cache, made, modules, listeners,
                       lastOverride, dependencies, lazy>>

\* SimpleInjectable: return self.factory(); SingletonInjectable:
\* `with synchronized(): instance = self.factory()`
get_instance_factory(t) ==
    LET frame == frames[t]
        lock == synchronized(t)
    IN  /\ frame.op = "find_instance" /\ frame.pc = "factory"
        /\ made < MaxMade
        /\ frame.kind = "SingletonInjectable" => Acquirable(t, lock)
        /\ made' = made + 1
        /\ frames' = [frames EXCEPT ![t] =
               IF frame.kind = "SingletonInjectable"
               THEN [frame EXCEPT !.pc = "store", !.lock = lock, !.inst = made + 1]
               ELSE [frame EXCEPT !.pc = "done", !.inst = made + 1, !.result = "ok"]]
        /\ UNCHANGED <<records, kind, cache, modules, listeners,
                       lastOverride, dependencies, lazy>>

\* SingletonInjectable: self.cache[self.__key] = instance, the lock is
\* released, return instance
get_instance_store(t) ==
    LET frame == frames[t]
    IN  /\ frame.op = "find_instance" /\ frame.pc = "store"
        /\ cache' = [cache EXCEPT ![frame.inj] = frame.inst]
        /\ frames' = [frames EXCEPT ![t] =
               [frame EXCEPT !.pc = "done", !.lock = "-", !.result = "ok"]]
        /\ UNCHANGED <<records, kind, made, modules, listeners,
                       lastOverride, dependencies, lazy>>

\* Lazy.__invert__: next(self.__iterator).  A generator that has not been
\* started runs infinite_yield up to the call of the factory; one that is
\* running in another thread raises ValueError (generator already
\* executing); one that is suspended at its yield yields the cached value
lazy_next(t) ==
    LET frame == [NoFrame EXCEPT !.op = "force"]
    IN  /\ Returned(t)
        /\ CASE lazy.state = "created" ->
                   /\ lazy' = [lazy EXCEPT !.state = "running"]
                   /\ frames' = [frames EXCEPT ![t] = [frame EXCEPT !.pc = "producer"]]
             [] lazy.state = "running" ->
                   /\ lazy' = lazy
                   /\ frames' = [frames EXCEPT ![t] =
                         [frame EXCEPT !.pc = "done", !.result = "ValueError"]]
             [] OTHER ->
                   /\ lazy' = lazy
                   /\ frames' = [frames EXCEPT ![t] =
                         [frame EXCEPT !.pc = "done", !.result = "ok",
                                       !.inst = lazy.cached]]
        /\ UNCHANGED <<records, kind, cache, made, modules, listeners,
                       lastOverride, dependencies>>

\* infinite_yield: cached = factory(); self.__is_set = True; yield cached.
\* The factory returns a new value whenever it is called
lazy_factory(t) ==
    LET frame == frames[t]
        cached == lazy.calls + 1
    IN  /\ frame.op = "force" /\ frame.pc = "producer"
        /\ lazy' = [state |-> "suspended", is_set |-> TRUE,
                    cached |-> cached, calls |-> lazy.calls + 1]
        /\ frames' = [frames EXCEPT ![t] =
               [frame EXCEPT !.pc = "done", !.result = "ok", !.inst = cached]]
        /\ UNCHANGED <<records, kind, cache, made, modules, listeners,
                       lastOverride, dependencies>>

\* Module.use up to `with self.dispatch(event)`: the two tests of the
\* argument.  No lock is taken by use
use_check(t, m, x) ==
    LET frame == [NoFrame EXCEPT !.op = "use", !.x = x]
    IN  /\ Returned(t)
        /\ frames' = [frames EXCEPT ![t] =
               IF x = m \/ InUse(m, x)
               THEN [frame EXCEPT !.pc = "done", !.result = "ModuleError"]
               ELSE [frame EXCEPT !.pc = "dispatch"]]
        /\ UNCHANGED <<records, kind, cache, made, modules, listeners,
                       lastOverride, dependencies, lazy>>

\* Module.use from `with self.dispatch(event)` on: the event is dispatched,
\* self.__modules[module] = None, __move_module, module.add_listener(self)
use_write(t, m) ==
    LET frame == frames[t]
    IN  /\ frame.op = "use" /\ frame.pc = "dispatch"
        /\ \E run \in dispatch(m) :
              IF run.tag # "ok"
              THEN /\ frames' = [frames EXCEPT ![t] =
                         [frame EXCEPT !.pc = "done", !.result = run.tag]]
                   /\ UNCHANGED <<modules, listeners, dependencies>>
              ELSE /\ modules' = [modules EXCEPT ![m] =
                         move_module(Append(modules[m], frame.x), frame.x,
                                     DefaultPriority)]
                   /\ listeners' = [listeners EXCEPT ![frame.x] = @ \cup {m}]
                   /\ dependencies' = updated(run.heard)
                   /\ frames' = [frames EXCEPT ![t] =
                         [frame EXCEPT !.pc = "done", !.result = "ok"]]
        /\ UNCHANGED <<records, kind, cache, made, lastOverride, lazy>>

\* the Module the threads share
SharedModule == "A"

\* the Module the threads make it use
UsedModule == "B"

UpdatePrepare(t) ==
    \E cls \in {"SimpleInjectable", "SingletonInjectable"} :
        /\ update_prepare(t, SharedModule, cls)
        /\ UNCHANGED <<scoped, pending, setup_queue, last>>
UpdateWrite(t) ==
    /\ update_write(t, SharedModule)
    /\ UNCHANGED <<scoped, pending, setup_queue, last>>
GetInstanceRead(t) ==
    /\ get_instance_read(t, SharedModule)
    /\ UNCHANGED <<scoped, pending, setup_queue, last>>
GetInstanceFactory(t) ==
    /\ get_instance_factory(t)
    /\ UNCHANGED <<scoped, pending, setup_queue, last>>
GetInstanceStore(t) ==
    /\ get_instance_store(t)
    /\ UNCHANGED <<scoped, pending, setup_queue, last>>
UseCheck(t) ==
    /\ use_check(t, SharedModule, UsedModule)
    /\ UNCHANGED <<scoped, pending, setup_queue, last>>
UseWrite(t) ==
    /\ use_write(t, SharedModule)
    /\ UNCHANGED <<scoped, pending, setup_queue, last>>
LazyNext(t) == lazy_next(t) /\ UNCHANGED <<scoped, pending, setup_queue, last>>
LazyFactory(t) ==
    /\ lazy_factory(t)
    /\ UNCHANGED <<scoped, pending, setup_queue, last>>

\* two threads that register, resolve and force at the same time
NextThreads ==
    \E t \in Threads :
        \/ UpdatePrepare(t)
        \/ UpdateWrite(t)
        \/ GetInstanceRead(t)
        \/ GetInstanceFactory(t)
        \/ GetInstanceStore(t)
        \/ LazyNext(t)
        \/ LazyFactory(t)
        \/ UseCheck(t)
        \/ UseWrite(t)

SpecThreads == Init /\ [][NextThreads]_vars

(***************************************************************************)
(* InjectedFunction: the function of FunctionModule.inject(wrapped), whose *)
(* parameters are all annotated with ScopeKey and have no default          *)
(***************************************************************************)
Annotation == [n \in Names |-> ScopeKey]

\* the object the caller passes for a parameter
ExplicitValue == -1

\* Dependencies.__resolver consumed by dict(...): the injectable of every
\* parameter; a parameter whose lookup raises KeyError is left out
resolver(m) ==
    LET found == [n \in Names |-> getitem(m, Annotation[n])]
    IN  IF \E n \in Names : found[n].tag = "RecursionError"
        THEN [tag |-> "RecursionError", mapping |-> NoArguments]
        ELSE [tag |-> "ok",
              mapping |-> [n \in Names |->
                             IF found[n].tag = "ok" THEN found[n].inj ELSE 0]]

\* a read of Dependencies.mapping (bool, iteration): ~Lazy runs the resolver
\* once; a generator its factory has raised in is exhausted
read_mapping(deps) ==
    CASE deps.state = "lazy" ->
            LET r == resolver(FunctionModule)
            IN  IF r.tag = "ok"
                THEN [tag |-> "ok",
                      deps |-> [state |-> "set", mapping |-> r.mapping]]
                ELSE [tag |-> r.tag,
                      deps |-> [state |-> "broken", mapping |-> NoArguments]]
      [] deps.state = "broken" -> [tag |-> "StopIteration", deps |-> deps]
      [] OTHER -> [tag |-> "ok", deps |-> deps]

\* injectable.get_instance() with mk objects made and the caches ch
dependency_instance(inj, mk, ch) ==
    CASE kind[inj] = "ShouldBeInjectable" ->
            [tag |-> "InjectionError", inst |-> 0, made |-> mk, cache |-> ch]
      [] kind[inj] = "SingletonInjectable" /\ ch[inj] # 0 ->
            [tag |-> "ok", inst |-> ch[inj], made |-> mk, cache |-> ch]
      [] kind[inj] = "SingletonInjectable" ->
            [tag |-> "ok", inst |-> mk + 1, made |-> mk + 1,
             cache |-> [ch EXCEPT ![inj] = mk + 1]]
      [] OTHER ->
            [tag |-> "ok", inst |-> mk + 1, made |-> mk + 1, cache |-> ch]

RECURSIVE dependencies_arguments(_, _, _, _, _)
\* Dependencies.arguments: OrderedDict(self), one get_instance per name of
\* the mapping, in the order of the signature, from parameter i on
dependencies_arguments(i, mapping, mk, ch, args) ==
    IF i > Len(Parameters)
    THEN [tag |-> "ok", arguments |-> args, made |-> mk, cache |-> ch]
    ELSE LET n == Parameters[i]
         IN  IF mapping[n] = 0
             THEN dependencies_arguments(i + 1, mapping, mk, ch, args)
             ELSE LET g == dependency_instance(mapping[n], mk, ch)
                  IN  IF g.tag # "ok"
                      THEN [tag |-> g.tag, arguments |-> args,
                            made |-> g.made, cache |-> g.cache]
                      ELSE dependencies_arguments(
                               i + 1, mapping, g.made, g.cache,
                               [args EXCEPT ![n] = g.inst])

\* a | b of two dicts: the values of b win
dict_union(a, b) == [n \in Names |-> IF b[n] # 0 THEN b[n] ELSE a[n]]

\* variant: bound.arguments | dependencies.arguments
merge_dependencies_last(bound, injected) ==
    dict_union(bound, injected)

\* bound.arguments | dependencies.arguments | bound.arguments
merge(bound, injected) ==
    dict_union(dict_union(bound, injected), bound)

\* InjectedFunction.bind on the dependencies deps: what it returns or raises
\* and what it leaves behind
bind_outcome(deps, explicit) ==
    LET r == read_mapping(deps)
    IN  IF r.tag # "ok"
        THEN [tag |-> r.tag, arguments |-> NoArguments, deps |-> r.deps,
              made |-> made, cache |-> cache]
        ELSE IF r.deps.mapping = NoArguments
        THEN [tag |-> "ok", arguments |-> explicit, deps |-> r.deps,
              made |-> made, cache |-> cache]
        ELSE LET a == dependencies_arguments(1, r.deps.mapping, made, cache,
                                             NoArguments)
             IN  [tag |-> a.tag,
                  arguments |-> IF a.tag = "ok" THEN merge(explicit, a.arguments)
                                ELSE NoArguments,
                  deps |-> r.deps, made |-> a.made, cache |-> a.cache]

\* the step of bind and of __call__
Binding(op, explicit, o, result) ==
    /\ o.made <= MaxMade
    /\ dependencies' = o.deps
    /\ made' = o.made
    /\ cache' = o.cache
    /\ last' = [Call(op, FunctionModule) EXCEPT
                    !.explicit = explicit, !.arguments = o.arguments,
                    !.built = (dependencies.state # "set"
                               /\ o.deps.state = "set"),
                    !.result = result]
    /\ UNCHANGED <<records, kind, modules, listeners, lastOverride>>

bind(explicit) ==
    LET o == bind_outcome(dependencies, explicit)
    IN  Binding("bind", explicit, o, o.tag)

\* InjectedFunction.__call__: __setup (on the first call: update(module),
\* then add_listener), bind, then the wrapped function, which raises
\* TypeError for a parameter without argument
call(explicit) ==
    LET deps == IF dependencies.state = "empty" THEN Unset ELSE dependencies
        o == bind_outcome(deps, explicit)
        result == IF o.tag # "ok" THEN o.tag
                  ELSE IF \E n \in Names : o.arguments[n] = 0 THEN "TypeError"
                  ELSE "ok"
    IN  Binding("call", explicit, o, result)

\* the explicit arguments of a call: any of the parameters, by keyword
Explicits ==
    {[n \in Names |-> IF n \in S THEN ExplicitValue ELSE 0] : S \in SUBSET Names}

BindFunction == \E explicit \in Explicits : bind(explicit) /\ UNCHANGED <<scoped, others>>
CallFunction ==
    \E explicit \in Explicits :
        /\ call(explicit)
        /\ setup_queue' = ClosedQueue
        /\ UNCHANGED <<scoped, pending, frames, lazy>>

\* an injected function of Module A, which uses B and C, which use others
NextBinder ==
    \/ CallFunction
    \/ BindFunction
    \/ \E m \in Binders : Register(m)
    \/ \E m \in Composers : Use(m)
    \/ StopUsing("A")
    \/ Unlock("A")

SpecBinder == Init /\ [][NextBinder]_vars

(***************************************************************************)
(* InjectedFunction.__call__ step by step, by several threads: __setup     *)
(* (the attribute is read, tasks are taken with get_nowait and called,     *)
(* task_done, join, the attribute is set to None), then bind and the       *)
(* wrapped function.  The only task is listen of Module.inject:            *)
(* function.update(self), self.add_listener(function).  update evaluates   *)
(* the signature of the function, which raises when an annotation cannot   *)
(* be evaluated.                                                           *)
(***************************************************************************)
\* what inspect.signature(wrapped, eval_str = True) does in a setup task
SignatureOutcomes == {"ok", "NameError"}

\* queue = self.__setup_queue; if queue is None: return
setup_enter(t) ==
    LET frame == [NoFrame EXCEPT !.op = "call"]
    IN  /\ Returned(t)
        /\ frames' = [frames EXCEPT ![t] =
               [frame EXCEPT !.pc = IF setup_queue.closed THEN "bind" ELSE "get"]]
        /\ UNCHANGED <<records, kind, cache, made, modules, listeners,
                       lastOverride, dependencies, setup_queue, scoped,
                       pending, lazy, last>>

\* task = queue.get_nowait(); except Empty: break
setup_get(t) ==
    /\ frames[t].op = "call" /\ frames[t].pc = "get"
    /\ IF setup_queue.tasks > 0
       THEN /\ setup_queue' = [setup_queue EXCEPT !.tasks = @ - 1, !.ran = @ + 1]
            /\ frames' = [frames EXCEPT ![t].pc = "task"]
       ELSE /\ setup_queue' = setup_queue
            /\ frames' = [frames EXCEPT ![t].pc = "join"]
    /\ UNCHANGED <<records, kind, cache, made, modules, listeners,
                   lastOverride, dependencies, scoped, pending, lazy, last>>

\* task(): function.update(self) sets the dependencies to an unread
\* LazyMapping, then self.add_listener(function); or the signature raises
\* and the exception leaves __setup
setup_task(t) ==
    /\ frames[t].op = "call" /\ frames[t].pc = "task"
    /\ \E outcome \in SignatureOutcomes :
          IF outcome = "ok"
          THEN /\ dependencies' = Unset
               /\ frames' = [frames EXCEPT ![t].pc = "task_done"]
          ELSE /\ dependencies' = dependencies
               /\ frames' = [frames EXCEPT ![t].pc = "done",
                                           ![t].result = outcome]
    /\ UNCHANGED <<records, kind, cache, made, modules, listeners,
                   lastOverride, setup_queue, scoped, pending, lazy, last>>

\* queue.task_done()
setup_task_done(t) ==
    /\ frames[t].op = "call" /\ frames[t].pc = "task_done"
    /\ setup_queue' = [setup_queue EXCEPT !.unfinished = @ - 1]
    /\ frames' = [frames EXCEPT ![t].pc = "get"]
    /\ UNCHANGED <<records, kind, cache, made, modules, listeners,
                   lastOverride, dependencies, scoped, pending, lazy, last>>

\* variant: join does not wait for the tasks taken by other calls
setup_join_without_waiting(t) ==
    /\ frames[t].op = "call" /\ frames[t].pc = "join"
    /\ setup_queue' = [setup_queue EXCEPT !.closed = TRUE]
    /\ frames' = [frames EXCEPT ![t].pc = "bind"]
    /\ UNCHANGED <<records, kind, cache, made, modules, listeners,
                   lastOverride, dependencies, scoped, pending, lazy, last>>

\* queue.join() blocks until every task put has been marked done; then
\* self.__close_setup_queue()
setup_join(t) ==
    /\ frames[t].op = "call" /\ frames[t].pc = "join"
    /\ setup_queue.unfinished = 0
    /\ setup_queue' = [setup_queue EXCEPT !.closed = TRUE]
    /\ frames' = [frames EXCEPT ![t].pc = "bind"]
    /\ UNCHANGED <<records, kind, cache, made, modules, listeners,
                   lastOverride, dependencies, scoped, pending, lazy, last>>

\* arguments = self.bind(args, kwargs); return self.wrapped(...), called
\* without arguments
call_bind(t) ==
    LET o == bind_outcome(dependencies, NoArguments)
        result == IF o.tag # "ok" THEN o.tag
                  ELSE IF \E n \in Names : o.arguments[n] = 0 THEN "TypeError"
                  ELSE "ok"
    IN  /\ frames[t].op = "call" /\ frames[t].pc = "bind"
        /\ o.made <= MaxMade
        /\ dependencies' = o.deps
        /\ made' = o.made
        /\ cache' = o.cache
        /\ frames' = [frames EXCEPT ![t].pc = "done", ![t].result = result]
        /\ UNCHANGED <<records, kind, modules, listeners, lastOverride,
                       setup_queue, scoped, pending, lazy, last>>

\* the threads call one injected function of Module A again and again,
\* while injectables are registered
NextSetup ==
    \/ \E t \in Threads :
        \/ setup_enter(t)
        \/ setup_get(t)
        \/ setup_task(t)
        \/ setup_task_done(t)
        \/ setup_join(t)
        \/ call_bind(t)
    \/ \E m \in Binders : Register(m)

SpecSetup == Init /\ [][NextSetup]_vars

\* with module.use_temporarily(other, priority = priority): ...
EnterBlock(m) ==
    \E x \in Modules, priority \in Priorities : use_temporarily_enter(m, x, priority)
LeaveBlock == use_temporarily_exit
RaiseInBlock == use_temporarily_throw

\* a Module that uses others for the time of a block; the other steps are
\* what the code around and inside the block does
NextScoped ==
    \/ EnterBlock("A")
    \/ LeaveBlock
    \/ RaiseInBlock
    \/ \E m \in {"A", "C"} : Register(m)
    \/ Resolve("A")
    \/ Unlock("A")
    \/ Use("A")
    \/ StopUsing("A")

SpecScoped == Init /\ [][NextScoped]_vars

InitModules(m) == \E given \in GivenLists : init_modules_call(m, given)

\* no init_modules is in progress: the calls of one thread follow one
\* another
Idle == pending = NoPending

\* a Module composed by every operation on its used list; C is the Module
\* whose singleton locks the Modules that use it
NextCompose ==
    \/ InitModules("A")
    \/ init_modules_step
    \/ init_modules_return
    \/ Idle /\ \E m \in Composers : Use(m)
    \/ Idle /\ StopUsing("A")
    \/ Idle /\ ChangePriority("A")
    \/ Idle /\ EnterBlock("A")
    \/ Idle /\ LeaveBlock
    \/ Idle /\ RaiseInBlock
    \/ Idle /\ Register("C")
    \/ Idle /\ Resolve("C")
    \/ Idle /\ Unlock("C")

SpecCompose == Init /\ [][NextCompose]_vars

\* cls in module
contains_input(m, cls) ==
    /\ last' = [Call("contains", m) EXCEPT !.k = cls, !.result = contains(m, cls)]
    /\ UNCHANGED <<records, kind, cache, made, modules, listeners,
                   lastOverride, dependencies>>

Contains(m) == \E cls \in Inputs : contains_input(m, cls) /\ UNCHANGED <<scoped, others>>
FindInput(m) == \E cls \in Inputs : find_instance(m, cls) /\ UNCHANGED <<scoped, others>>
GetInput(m) == \E cls \in Inputs : get_instance(m, cls) /\ UNCHANGED <<scoped, others>>

\* Module.injectable with on = k
Provide(m) ==
    \E k \in Keys : update(m, {k}, "SimpleInjectable", "normal") /\ UNCHANGED <<scoped, others>>

\* Module.use(module), with the default priority
UseDefault(m) == \E x \in Modules : use(m, x, "low") /\ UNCHANGED <<scoped, others>>

\* lookups on a Module, by every form of input; the Modules use one another
NextLookup ==
    \/ Contains("A")
    \/ FindInput("A")
    \/ GetInput("A")
    \/ \E m \in Binders :
        Provide(m)
    \/ \E m \in Composers :
        UseDefault(m)

SpecLookup == Init /\ [][NextLookup]_vars

\* three Modules, each of which may use the others; C binds the key
NextGraph ==
    \/ \E m \in Modules :
        \/ Use(m)
        \/ StopUsing(m)
        \/ ChangePriority(m)
    \/ Register("C")
    \/ Resolve("A")
    \/ Contains("A")

SpecGraph == Init /\ [][NextGraph]_vars

(***************************************************************************)
(* Properties of the Locator's conflict policy (SpecRegistry)              *)
(***************************************************************************)
IsShouldBe(rec) == rec # NoRecord /\ kind[rec.inj] = "ShouldBeInjectable"
IsReal(rec) == rec # NoRecord /\ kind[rec.inj] # "ShouldBeInjectable"

\* the step is a call of update
Updating == last'.op = "update"

\* the key holds a Record of strictly higher rank than the call's mode
Outranked(m, k, mode) ==
    records[m][k] # NoRecord /\ rank(mode) < rank(records[m][k].mode)

\* C1: a registration whose mode equals the mode of the Record one of its
\* keys already holds, and is not override (normal over normal, fallback
\* over fallback), raises the conflict error and writes nothing.
C1Step ==
    (/\ Updating
     /\ \E k \in last'.keys :
            /\ records[last'.m][k] # NoRecord
            /\ records[last'.m][k].mode = last'.mode
            /\ last'.mode # "override")
    => (last'.result = "RuntimeError" /\ records' = records /\ last'.event = NoEvent)

Thm_C1 == [][C1Step]_vars

\* a fallback registration met a fallback Record and raised the conflict error
W_C1 ==
    /\ last.op = "update" /\ last.result = "RuntimeError" /\ last.mode = "fallback"
    /\ \E k \in last.keys : last.found[k].mode = "fallback"

\* C2: the conflict policy accepts every key of an override registration,
\* whatever Record the key holds (the call never raises the conflict error,
\* and when the Module lets the event through every key is written with the
\* new injectable); and a key that has received an override holds, and its
\* lookup returns, the injectable of the most recent override.
Thm_C2 ==
    /\ (last.op = "update" /\ last.mode = "override") =>
          /\ last.result # "RuntimeError"
          /\ last.accepted = last.keys
          /\ last.result = "ok" =>
                \A k \in last.keys :
                    /\ records[last.m][k] = Record(last.inj, "override")
                    /\ lastOverride[last.m][k] = last.inj
    /\ \A m \in Modules, k \in Keys :
          lastOverride[m][k] # 0 =>
              /\ records[m][k] = Record(lastOverride[m][k], "override")
              /\ locator_getitem(m, k) = Found(lastOverride[m][k])
              /\ modules[m] = <<>> => getitem(m, k) = Found(lastOverride[m][k])

\* an override registration has replaced an override Record, and the key
\* resolves to the new injectable
W_C2 ==
    /\ last.op = "update" /\ last.mode = "override" /\ last.result = "ok"
    /\ \E k \in last.keys :
          /\ last.found[k].mode = "override"
          /\ getitem(last.m, k) = Found(last.inj)

\* C3: a key whose Record outranks the registration's mode is rejected
\* silently: its Record is unchanged and it is not among the accepted keys;
\* a call all of whose keys are outranked raises nothing, writes nothing and
\* emits no event.
C3Step ==
    Updating =>
        /\ \A k \in last'.keys :
              Outranked(last'.m, k, last'.mode) =>
                  /\ records'[last'.m][k] = records[last'.m][k]
                  /\ k \notin last'.accepted
        /\ (\A k \in last'.keys : Outranked(last'.m, k, last'.mode)) =>
              /\ last'.result = "ok"
              /\ last'.event = NoEvent
              /\ last'.accepted = {}
              /\ records' = records

Thm_C3 == [][C3Step]_vars

\* a registration returned normally although none of its keys was accepted
W_C3 ==
    /\ last.op = "update" /\ last.result = "ok"
    /\ last.keys # {} /\ last.accepted = {}
    /\ \A k \in last.keys :
          last.found[k] # NotFound /\ rank(last.found[k].mode) > rank(last.mode)

\* C4: a normal registration of a real injectable for a key that holds a
\* ShouldBeInjectable under fallback replaces it; from then on the key never
\* holds a ShouldBeInjectable again, and find_instance / get_instance of the
\* key on that registry return an instance of the real injectable, never the
\* placeholder's InjectionError.
C4Step ==
    \A m \in Modules, k \in Keys :
        /\ (/\ IsShouldBe(records[m][k])
            /\ Updating /\ last'.m = m /\ k \in last'.keys
            /\ last'.mode = "normal" /\ last'.result = "ok")
           => (/\ records'[m][k] = Record(last'.inj, "normal")
               /\ kind'[last'.inj] # "ShouldBeInjectable")
        /\ IsReal(records[m][k])
           => (records'[m][k] # NoRecord
               /\ kind'[records'[m][k].inj] # "ShouldBeInjectable")
        /\ (/\ IsReal(records[m][k]) /\ modules[m] = <<>>
            /\ last'.op \in {"find_instance", "get_instance"}
            /\ last'.m = m /\ last'.k = k)
           => (/\ last'.result = "ok"
               /\ last'.inj = records[m][k].inj
               /\ last'.inst > 0)

Thm_C4 == [][C4Step]_vars

\* a normal registration has replaced a ShouldBeInjectable, and the key now
\* resolves to the real injectable
W_C4 ==
    /\ last.op = "update" /\ last.mode = "normal" /\ last.result = "ok"
    /\ \E k \in last.keys :
          /\ last.found[k] = [kind |-> "ShouldBeInjectable", mode |-> "fallback"]
          /\ getitem(last.m, k) = Found(last.inj)
          /\ find_instance_outcome(last.m, k).result = "ok"

\* C5: while the key resolves to a ShouldBeInjectable, find_instance and
\* get_instance both raise InjectionError (get_instance does not return
\* None), no object is made, and the ShouldBeInjectable is never locked.
Thm_C5 ==
    /\ \A m \in Modules, k \in Keys :
          IsShouldBe(records[m][k]) =>
              /\ ~injectable_is_locked(records[m][k].inj)
              /\ cache[records[m][k].inj] = 0
    /\ (/\ last.op \in {"find_instance", "get_instance"}
        /\ getitem(last.m, last.k).tag = "ok"
        /\ kind[getitem(last.m, last.k).inj] = "ShouldBeInjectable")
       => (last.result = "InjectionError" /\ last.inst = 0)

\* get_instance of a key that holds only a ShouldBeInjectable has raised
W_C5 ==
    /\ last.op = "get_instance" /\ last.result = "InjectionError"
    /\ IsShouldBe(records[last.m][last.k])
    /\ is_locked(last.m) = "false"

(***************************************************************************)
(* Properties of the Module as a scope (Spec)                              *)
(***************************************************************************)
Uses(m) == {modules[m][i] : i \in 1 .. Len(modules[m])}

RECURSIVE Reach(_, _)
Reach(S, n) ==
    IF n = 0 THEN S ELSE Reach(S \cup UNION {Uses(u) : u \in S}, n - 1)

\* the Module and the Modules it uses, directly or through others
Under(m) == Reach({m}, Cardinality(Modules))

\* the Modules that use m, directly or through others
Users(m) == {p \in Modules \ {m} : m \in Under(p)}

\* some SingletonInjectable stored under m holds an instance
SingletonCachedUnder(m) ==
    \E u \in Under(m) : \E i \in injectables(u) :
        kind[i] = "SingletonInjectable" /\ cache[i] # 0

RECURSIVE SearchOrder(_, _)
RECURSIVE SearchOrders(_, _)
SearchOrders(seq, path) ==
    IF seq = <<>> THEN <<>>
    ELSE SearchOrder(Head(seq), path) \o SearchOrders(Tail(seq), path)

\* the registries a lookup on m consults, in order: those of each used
\* Module in list order (each with its own used Modules first), then its own
SearchOrder(m, path) ==
    IF m \in path THEN <<>>
    ELSE SearchOrders(modules[m], path \cup {m}) \o <<m>>

FirstBound(order, k) ==
    LET bound == {i \in 1 .. Len(order) : records[order[i]][k] # NoRecord}
    IN  IF bound = {} THEN Raised("NoInjectable")
        ELSE LET i == CHOOSE j \in bound : \A l \in bound : j <= l
             IN Found(records[order[i]][k].inj)

\* C6: find_instance on a Module answers with the Record of the first
\* registry that binds the key in the order: used Modules in list order, then
\* the own registry (so a used Module's binding shadows the own one), and
\* raises NoInjectable when none of them binds the key.
Orig_C6 ==
    last.op = "find_instance" =>
        LET r == FirstBound(SearchOrder(last.m, {}), last.k)
        IN  /\ last.result = r.tag
            /\ last.inj = r.inj

\* every lookup that returns or raises NoInjectable answers as C6 says; the
\* other lookups run into a Module that is already being searched
C6Returns ==
    \A m \in Modules, k \in Keys :
        LET r == getitem(m, k)
        IN  r.tag # "RecursionError" => r = FirstBound(SearchOrder(m, {}), k)

\* C7: a successful use or change_priority with priority high leaves the
\* Module at the front of the used list, with priority low at the end; and a
\* lookup returns whatever the Module at the front resolves the key to: when
\* the front Module binds the key itself and uses nothing, its binding,
\* whatever the Modules behind it bind.
Thm_C7 ==
    /\ (last.op \in {"use", "change_priority"} /\ last.result = "ok") =>
          LET used == modules[last.m]
          IN  /\ Len(used) > 0
              /\ last.priority = "high" => used[1] = last.x
              /\ last.priority = "low" => used[Len(used)] = last.x
    /\ \A m \in Modules, k \in Keys :
          modules[m] # <<>> =>
              LET c == modules[m][1]
              IN  /\ getitem(c, k).tag # "NoInjectable"
                     => getitem(m, k) = getitem(c, k)
                  /\ (records[c][k] # NoRecord /\ modules[c] = <<>>)
                     => getitem(m, k) = Found(records[c][k].inj)

\* the Module used a second Module, with high; both used Modules bind the
\* key, and the lookup returns the binding of the one used with high
W_C7 ==
    /\ last.op = "use" /\ last.result = "ok" /\ last.priority = "high"
    /\ Len(modules[last.m]) = 2
    /\ modules[last.m][1] = last.x
    /\ records[modules[last.m][1]][ScopeKey] # NoRecord
    /\ records[modules[last.m][2]][ScopeKey] # NoRecord
    /\ getitem(last.m, ScopeKey) = Found(records[modules[last.m][1]][ScopeKey].inj)

\* the calls of the lock law
LockLawOps == {"use", "update", "change_priority"}

\* the step's call gets past the checks made before the lock check: use of
\* another Module that is not yet used, update accepting a key without
\* conflict, any change_priority
PassesChecks ==
    LET m == last'.m
    IN  CASE last'.op = "use" -> last'.x # m /\ ~InUse(m, last'.x)
          [] last'.op = "update" ->
                LET prepared == prepare_for_updating(
                                    records[m], last'.keys, Record(0, last'.mode))
                IN  prepared.tag = "ok" /\ prepared.classes # {}
          [] OTHER -> TRUE

\* C8 as stated: once a singleton under the Module holds an instance, every
\* use, update or change_priority on the Module raises ModuleLockError; and
\* right after an unlock of the Module that dropped an instance, every such
\* call succeeds.
C8OrigStep ==
    /\ (last'.op \in LockLawOps /\ SingletonCachedUnder(last'.m))
       => last'.result = "ModuleLockError"
    /\ (/\ last.op = "unlock" /\ last.result = "ok" /\ last.cleared # {}
        /\ last'.op \in LockLawOps /\ last'.m = last.m /\ PassesChecks)
       => last'.result = "ok"

Orig_C8 == [][C8OrigStep]_vars

\* C8 amended: while is_locked of the Module is true, every use, update or
\* change_priority on it that gets past its argument and conflict checks
\* raises ModuleLockError and changes nothing; right after unlock of the
\* Module has returned, such a call (change_priority: of a used Module)
\* succeeds and takes effect, provided is_locked is false for every Module
\* that uses this one, directly or through others.
C8Step ==
    LET m == last'.m
    IN  /\ (last'.op \in LockLawOps /\ is_locked(m) = "true" /\ PassesChecks)
           => /\ last'.result = "ModuleLockError"
              /\ UNCHANGED <<records, kind, cache, made, modules, listeners>>
        /\ (/\ last.op = "unlock" /\ last.result = "ok"
            /\ last'.op \in LockLawOps /\ m = last.m /\ PassesChecks
            /\ last'.op = "change_priority" => InUse(m, last'.x)
            /\ \A p \in Users(m) : is_locked(p) = "false")
           => /\ last'.result = "ok"
              /\ last'.op = "use" =>
                    last'.x \in {modules'[m][i] : i \in 1 .. Len(modules'[m])}
              /\ last'.op = "update" =>
                    \A k \in last'.accepted :
                        records'[m][k] = Record(last'.inj, last'.mode)

Thm_C8 == [][C8Step]_vars

\* a use of another, not yet used Module was refused with ModuleLockError
\* because a Module already used holds a singleton instance
W_C8 ==
    /\ last.op = "use" /\ last.result = "ModuleLockError"
    /\ last.x # last.m /\ ~InUse(last.m, last.x)
    /\ is_locked(last.m) = "true"
    /\ locator_is_locked(last.m) = "false"

\* C9: when unlock of a Module has returned, is_locked of the Module is
\* false and no SingletonInjectable stored in its registry or in the
\* registry of a Module it uses, directly or through others, holds an
\* instance; and a find_instance that reaches a SingletonInjectable without
\* instance invokes the factory and returns and caches an object that did
\* not exist before.
C9Step ==
    /\ (last'.op = "unlock" /\ last'.result = "ok") =>
          /\ \A m \in Modules : m = last'.m => is_locked(m)' = "false"
          /\ \A u \in Under(last'.m) : \A i \in injectables(u) : cache'[i] = 0
          /\ last'.cleared =
                {i \in UNION {injectables(u) : u \in Under(last'.m)} : cache[i] # 0}
    /\ (/\ last'.op = "find_instance" /\ last'.result = "ok"
        /\ kind[last'.inj] = "SingletonInjectable" /\ cache[last'.inj] = 0) =>
          /\ made' = made + 1
          /\ last'.inst = made + 1
          /\ cache'[last'.inj] = last'.inst
          /\ \A i \in InjIds : cache[i] # last'.inst
    /\ \A i \in InjIds : cache[i] <= made

Thm_C9 == [][C9Step]_vars

\* unlock of a Module dropped the instance of a singleton of a Module it
\* uses only through another one, and the next find_instance on the Module
\* will invoke that singleton's factory again
W_C9 ==
    /\ last.op = "unlock" /\ last.result = "ok"
    /\ \E u \in Under(last.m) \ ({last.m} \cup Uses(last.m)) :
          /\ last.cleared \cap injectables(u) # {}
          /\ LET o == find_instance_outcome(last.m, ScopeKey)
             IN  /\ o.result = "ok" /\ o.calls
                 /\ o.inj \in last.cleared \cap injectables(u)
    /\ made < MaxMade

\* C10: in every state, is_locked of a Module is true exactly when a
\* SingletonInjectable stored in the Module's registry, or in the registry
\* of a Module it uses directly or through others, holds an instance.
Orig_C10 ==
    \A m \in Modules : is_locked(m) = "true" <=> SingletonCachedUnder(m)

\* whenever is_locked returns it answers as C10 says; injectables of the
\* other classes hold no instance, and the instance a find_instance got from
\* a SimpleInjectable is held by no injectable
C10Returns ==
    /\ \A m \in Modules :
          is_locked(m) # "RecursionError" =>
              (is_locked(m) = "true" <=> SingletonCachedUnder(m))
    /\ \A i \in InjIds : kind[i] # "SingletonInjectable" => cache[i] = 0
    /\ (/\ last.op = "find_instance" /\ last.result = "ok"
        /\ kind[last.inj] = "SimpleInjectable")
       => \A i \in InjIds : cache[i] # last.inst

(***************************************************************************)
(* Properties of the injectables' lifecycles (SpecRegistry)                *)
(***************************************************************************)
\* the step is a find_instance or get_instance that reached an injectable
Resolving == last'.op \in {"find_instance", "get_instance"} /\ last'.inj # 0

\* C11: every find_instance / get_instance that reaches a SimpleInjectable
\* invokes its factory exactly once: it returns the object made by that
\* invocation, which no earlier call returned and no injectable holds, and
\* keeps nothing; so two consecutive resolves return different objects.
C11Step ==
    (Resolving /\ kind[last'.inj] = "SimpleInjectable") =>
        /\ last'.result = "ok"
        /\ last'.calls
        /\ made' = made + 1
        /\ last'.inst = made'
        /\ last.inst < last'.inst
        /\ \A i \in InjIds : cache[i] < last'.inst
        /\ cache' = cache

Thm_C11 == [][C11Step]_vars

\* the second of two resolves of a SimpleInjectable has returned an object
\* other than the first one's
W_C11 ==
    /\ last.op = "find_instance" /\ last.result = "ok"
    /\ kind[last.inj] = "SimpleInjectable"
    /\ made = 2 /\ last.inst = 2
    /\ \A i \in InjIds : cache[i] = 0

\* C12: a SingletonInjectable that holds an instance hands out that very
\* instance without invoking its factory, under every key it is stored for;
\* one without instance invokes the factory once and keeps the object; the
\* kept instance is dropped by unlock only; and while it is kept the
\* injectable, its Locator and (the Module using no other) the Module are
\* locked.
C12Step ==
    /\ (Resolving /\ kind[last'.inj] = "SingletonInjectable") =>
          /\ last'.result = "ok"
          /\ cache[last'.inj] # 0 =>
                /\ ~last'.calls
                /\ made' = made
                /\ last'.inst = cache[last'.inj]
                /\ cache' = cache
          /\ cache[last'.inj] = 0 =>
                /\ last'.calls
                /\ made' = made + 1
                /\ last'.inst = made'
                /\ cache' = [cache EXCEPT ![last'.inj] = made']
    /\ \A i \in InjIds :
          (cache[i] # 0 /\ cache'[i] # cache[i]) =>
              (last'.op = "unlock" /\ i \in last'.cleared)
    /\ \A m \in Modules, k \in Keys :
          (records[m][k] # NoRecord /\ cache[records[m][k].inj] # 0) =>
              /\ kind[records[m][k].inj] = "SingletonInjectable"
              /\ injectable_is_locked(records[m][k].inj)
              /\ locator_is_locked(m) = "true"
              /\ modules[m] = <<>> => is_locked(m) = "true"

Thm_C12 == [][C12Step]_vars

\* a SingletonInjectable stored under two keys has handed out, for one key
\* and without invoking its factory, the instance it holds
W_C12 ==
    /\ last.op = "find_instance" /\ last.result = "ok" /\ ~last.calls
    /\ kind[last.inj] = "SingletonInjectable"
    /\ last.inst = cache[last.inj]
    /\ \A k \in Keys : records[last.m][k] = Record(last.inj, records[last.m][k].mode)
    /\ is_locked(last.m) = "true"

(***************************************************************************)
(* Properties of Locator.update's writes and event (SpecRegistry)          *)
(***************************************************************************)
\* the keys of the step's update whose Record the conflict policy lets the
\* new one replace: no Record, or one of lower or equal rank
Admitted ==
    {k \in last'.keys :
        \/ records[last'.m][k] = NoRecord
        \/ rank(last'.mode) >= rank(records[last'.m][k].mode)}

\* the keys whose Record the step changed
Written == {k \in Keys : records'[last'.m][k] # records[last'.m][k]}

\* the event of an update: none without accepted key, else the one
\* LocatorDependenciesUpdated of the accepted keys and the mode
EventLaw ==
    /\ last'.accepted = {} => last'.event = NoEvent
    /\ last'.accepted # {} =>
          last'.event = LocatorDependenciesUpdated(last'.accepted, last'.mode)

\* C17 as stated: every update writes exactly the keys it accepted, and its
\* event is as EventLaw says.
C17OrigStep ==
    Updating =>
        /\ Written = last'.accepted
        /\ EventLaw

Orig_C17 == [][C17OrigStep]_vars

\* C17 amended: an update that returns has written exactly the keys it
\* accepted (each with the new Record), one that raises has written none;
\* unless the conflict error is raised the accepted keys are those the
\* conflict policy admits; and the event is as EventLaw says, also when the
\* Module refuses it.
C17Step ==
    Updating =>
        /\ last'.result = "ok" =>
              /\ Written = last'.accepted
              /\ \A k \in last'.accepted :
                    records'[last'.m][k] = Record(last'.inj, last'.mode)
        /\ last'.result # "ok" => records' = records
        /\ last'.result # "RuntimeError" => last'.accepted = Admitted
        /\ last'.result = "RuntimeError" => last'.accepted = {}
        /\ EventLaw

Thm_C17 == [][C17Step]_vars

\* an update of two keys has written the one it accepted and left the other,
\* and its event lists the written key only
W_C17 ==
    /\ last.op = "update" /\ last.result = "ok"
    /\ last.keys = Keys /\ Cardinality(last.accepted) = 1
    /\ last.event = LocatorDependenciesUpdated(last.accepted, last.mode)
    /\ \A k \in Keys :
          (records[last.m][k].inj = last.inj) <=> k \in last.accepted

\* the update of the step is in conflict: one of its keys is bound with
\* the mode of the call, and the mode is not override
InConflict ==
    /\ last'.op = "update"
    /\ last'.mode # "override"
    /\ \E k \in last'.keys :
          /\ records[last'.m][k] # NoRecord
          /\ records[last'.m][k].mode = last'.mode

\* C33: an update of several keys of which one is in conflict raises the
\* conflict error and writes none of its keys, the ones not in conflict
\* included: the registry, the injectables and their instances are as
\* before the call, no event is made and no listener is called.
C33Step ==
    InConflict =>
        /\ last'.result = "RuntimeError"
        /\ last'.accepted = {}
        /\ last'.event = NoEvent
        /\ last'.heard = {} /\ last'.recorded = {}
        /\ UNCHANGED <<records, kind, cache, lastOverride, dependencies>>

Thm_C33 == [][C33Step]_vars

\* an update of two keys, one bound with the mode of the call and one not
\* bound, has raised the conflict error and the second is still not bound
W_C33 ==
    /\ last.op = "update" /\ last.result = "RuntimeError"
    /\ last.keys = Keys
    /\ \E k \in Keys :
          /\ records[last.m][k] # NoRecord /\ records[last.m][k].mode = last.mode
          /\ \E j \in Keys \ {k} : records[last.m][j] = NoRecord

\* C34: over the updates of one registry a key that is bound stays bound,
\* and the rank of the mode of its Record (fallback < normal < override)
\* never decreases.
C34Step ==
    \A m \in Modules : \A k \in Keys :
        records[m][k] # NoRecord =>
            /\ records'[m][k] # NoRecord
            /\ rank(records'[m][k].mode) >= rank(records[m][k].mode)

Thm_C34 == [][C34Step]_vars

\* an update in mode fallback of a key bound in mode override has returned
\* and the key is still bound in mode override, to another injectable
W_C34 ==
    /\ last.op = "update" /\ last.result = "ok" /\ last.mode = "fallback"
    /\ \E k \in last.keys :
          /\ records[last.m][k] # NoRecord
          /\ records[last.m][k].mode = "override"
          /\ records[last.m][k].inj # last.inj
          /\ k \notin last.accepted

(***************************************************************************)
(* Properties of use, stop_using and change_priority (Spec)                *)
(***************************************************************************)
\* neither the Module nor a Module using it, directly or through others, is
\* locked: every lock check of a dispatch on the Module passes
Unlocked(m) == \A p \in {m} \cup Users(m) : is_locked(p) = "false"

\* C13: use of the Module itself, or of a Module that is already in the
\* used list, raises ModuleError in every state, locked or not; the used
\* list and the subscriptions are unchanged and no listener's on_event is
\* entered.
C13Step ==
    (last'.op = "use" /\ (last'.x = last'.m \/ last'.x \in Uses(last'.m))) =>
        /\ last'.result = "ModuleError"
        /\ modules' = modules
        /\ listeners' = listeners
        /\ last'.heard = {} /\ last'.recorded = {}
        /\ UNCHANGED <<records, kind, cache, made, dependencies>>

Thm_C13 == [][C13Step]_vars

\* a second use of a used Module was refused with ModuleError; the Module
\* has a listener and is locked, and the listener heard nothing
W_C13 ==
    /\ last.op = "use" /\ last.result = "ModuleError"
    /\ last.x # last.m /\ last.x \in Uses(last.m)
    /\ listeners[last.m] # {}
    /\ is_locked(last.m) = "true"
    /\ last.heard = {}

\* the step is a stop_using of a Module that is not in the used list
StopUsingAbsent == last'.op = "stop_using" /\ last'.x \notin Uses(last'.m)

\* what a stop_using of an absent Module leaves alone
C14Frame ==
    /\ modules' = modules
    /\ listeners' = listeners
    /\ last'.recorded = {}
    /\ UNCHANGED <<records, kind, cache, made, dependencies>>

\* C14 as stated: in every state, stop_using of a Module that is not in the
\* used list raises nothing, changes neither the used list nor a
\* subscription, and no listener records an event.
C14OrigStep == StopUsingAbsent => (last'.result = "ok" /\ C14Frame)

Orig_C14 == [][C14OrigStep]_vars

\* C14 amended: stop_using of a Module that is not in the used list changes
\* neither the used list nor a subscription and no listener records an
\* event, in every state; it raises nothing when neither the Module nor a
\* Module using it is locked, and ModuleLockError when the Module is locked.
C14Step ==
    StopUsingAbsent =>
        /\ C14Frame
        /\ Unlocked(last'.m) => last'.result = "ok"
        /\ is_locked(last'.m) = "true" => last'.result = "ModuleLockError"

Thm_C14 == [][C14Step]_vars

\* stop_using of a Module that is not used has returned; the Module has a
\* listener, whose on_event was entered, and no listener recorded the event
W_C14 ==
    /\ last.op = "stop_using" /\ last.result = "ok"
    /\ last.x \notin Uses(last.m) /\ last.x # last.m
    /\ modules[last.m] # <<>>
    /\ last.heard # {} /\ last.recorded = {}

\* the step is a change_priority of a Module that is not in the used list
ChangePriorityAbsent ==
    last'.op = "change_priority" /\ last'.x \notin Uses(last'.m)

\* C15 as stated: change_priority of a Module that is not in the used list
\* raises ModuleNotUsedError and leaves the used list as it is.
C15OrigStep ==
    ChangePriorityAbsent =>
        (last'.result = "ModuleNotUsedError" /\ modules' = modules)

Orig_C15 == [][C15OrigStep]_vars

\* C15 amended: change_priority of a Module that is not in the used list
\* always raises and leaves the used list and the subscriptions as they
\* are; it raises ModuleNotUsedError when neither the Module nor a Module
\* using it is locked, and ModuleLockError when the Module is locked.
C15Step ==
    ChangePriorityAbsent =>
        /\ last'.result # "ok"
        /\ modules' = modules
        /\ listeners' = listeners
        /\ last'.recorded = {}
        /\ Unlocked(last'.m) => last'.result = "ModuleNotUsedError"
        /\ is_locked(last'.m) = "true" => last'.result = "ModuleLockError"

Thm_C15 == [][C15Step]_vars

\* change_priority of a Module that is not used was refused with
\* ModuleNotUsedError by a Module that uses another one
W_C15 ==
    /\ last.op = "change_priority" /\ last.result = "ModuleNotUsedError"
    /\ last.x \notin Uses(last.m) /\ last.x # last.m
    /\ Len(modules[last.m]) = 1

\* the calls that dispatch an event
Mutators == {"update", "use", "stop_using", "change_priority"}

\* the step's call has made its change: the accepted keys hold the new
\* Record, the Module is used (at the place of its priority), or is not used
Applied ==
    LET m == last'.m
        x == last'.x
    IN  CASE last'.op = "update" ->
                /\ last'.accepted # {}
                /\ \A k \in last'.accepted :
                      records'[m][k] = Record(last'.inj, last'.mode)
          [] last'.op = "use" ->
                modules'[m] = move_module(Append(modules[m], x), x, last'.priority)
          [] last'.op = "stop_using" ->
                modules'[m] = Without(modules[m], x)
          [] last'.op = "change_priority" ->
                InUse(m, x) /\ modules'[m] = move_module(modules[m], x, last'.priority)
          [] OTHER -> FALSE

\* C27 as stated: no listener's on_event is called for the event of a
\* mutation before the mutation is made; so whenever the on_event of some
\* listener has been called, the call has made its change.
C27OrigStep ==
    (last'.op \in Mutators /\ last'.heard # {}) => (last'.result = "ok" /\ Applied)

Orig_C27 == [][C27OrigStep]_vars

\* C27 amended: the on_event of every listener is entered before the
\* change is made (a Module that listens checks its lock there and can
\* refuse the change), and the listeners' code after the yield (the record
\* of the event, InjectedFunction.update) runs only when the change has
\* been made: every listener that was entered reacts when the call returns
\* having made its change, and none reacts when the call raises or, as a
\* stop_using of a Module that is not used, changes nothing.
C27Step ==
    last'.op \in Mutators =>
        /\ last'.recorded # {} =>
              (last'.result = "ok" /\ Applied /\ last'.recorded = last'.heard)
        /\ last'.result # "ok" =>
              /\ last'.recorded = {}
              /\ UNCHANGED <<records, modules, listeners, dependencies>>
        /\ (last'.result = "ok" /\ last'.op # "stop_using" /\ last'.heard # {}) =>
              (Applied /\ last'.recorded = last'.heard)
        /\ (last'.op = "stop_using" /\ InUse(last'.m, last'.x) /\ last'.result = "ok") =>
              (Applied /\ last'.recorded = last'.heard)

Thm_C27 == [][C27Step]_vars

\* a Module used through another one has registered an injectable: the
\* on_event of the Module and of the two Modules above it was entered, and
\* all three have reacted to the change
W_C27 ==
    /\ last.op = "update" /\ last.result = "ok"
    /\ Cardinality(last.heard) = 3
    /\ last.recorded = last.heard
    /\ records[last.m][ScopeKey] = Record(last.inj, last.mode)

\* is_locked is true for a Module that uses m, directly or through others
UserLocked(m) == \E p \in Users(m) : is_locked(p) = "true"

\* C35 as stated: a register, use, stop_using or change_priority on a
\* Module raises ModuleLockError and changes nothing whenever a Module that
\* uses it, directly or through others, is locked, whether or not the
\* Module itself is locked.
C35OrigStep ==
    (last'.op \in Mutators /\ UserLocked(last'.m)) =>
        /\ last'.result = "ModuleLockError"
        /\ UNCHANGED <<records, modules>>

Orig_C35 == [][C35OrigStep]_vars

\* C35 amended: such a call that gets past its argument and conflict
\* checks raises ModuleLockError and changes nothing whenever is_locked is
\* true for a Module that uses this one, directly or through others, and
\* true or false for every other Module that does and for the Module
\* itself; a call that does not get past these checks raises their error,
\* or returns, and changes nothing either.
C35Refused ==
    /\ UNCHANGED <<records, kind, cache, modules, listeners>>
    /\ last'.recorded = {}
    /\ IF PassesChecks
       THEN last'.result = "ModuleLockError"
       ELSE last'.result \in {"ModuleError", "RuntimeError", "ok"}

C35Step ==
    LET m == last'.m
    IN  (last'.op \in Mutators /\ ~C35Refused) =>
            ~(/\ UserLocked(m)
              /\ \A p \in {m} \cup Users(m) : is_locked(p) \in {"true", "false"})

Thm_C35 == [][C35Step]_vars

\* a call on a Module that is not locked was refused with ModuleLockError
\* by a locked Module that uses it through another one only
W_C35 ==
    /\ last.op \in Mutators /\ last.result = "ModuleLockError"
    /\ is_locked(last.m) = "false"
    /\ last.raised \in Users(last.m) \ listeners[last.m]
    /\ is_locked(last.raised) = "true"

\* C28: when the on_event of a listener raises during the dispatch of a
\* register, use, stop_using or change_priority, every listener whose
\* context was entered before has been exited when the call is over, no
\* listener has reacted, and the call raises the listener's exception.
Thm_C28 ==
    (last.op \in Mutators /\ last.raised \notin {"-", last.m}) =>
        /\ last.ended = last.begun
        /\ last.recorded = {}
        /\ last.result # "ok"
        /\ last.result = check_locking(last.raised)

\* the on_event of one user of the Module was entered, then the on_event
\* of a second, locked user raised ModuleLockError
W_C28 ==
    /\ last.op \in Mutators
    /\ last.raised \notin {"-", last.m}
    /\ last.begun # {} /\ last.ended = last.begun
    /\ last.raised \notin last.begun
    /\ last.result = "ModuleLockError"

(***************************************************************************)
(* Properties of use_temporarily (SpecScoped)                              *)
(***************************************************************************)
\* the step ends the open block, normally or by an exception of its body
BlockEnds == scoped # NoBlock /\ scoped' = NoBlock

\* C16: when a use_temporarily block has ended, normally or by an exception
\* of its body, the Module of the block is no longer in the used list.
C16OrigStep ==
    BlockEnds => \A i \in 1 .. Len(modules'[scoped.m]) : modules'[scoped.m][i] # scoped.x

Orig_C16 == [][C16OrigStep]_vars

\* the block is entered by a use that returned; and a block that ends
\* normally on a Module that is not locked has removed the Module it used
C16Normal ==
    /\ (scoped = NoBlock /\ scoped' # NoBlock) =>
          /\ last'.op = "use" /\ last'.result = "ok"
          /\ scoped' = [m |-> last'.m, x |-> last'.x]
          /\ \E i \in 1 .. Len(modules'[last'.m]) : modules'[last'.m][i] = last'.x
    /\ (BlockEnds /\ last'.op = "stop_using" /\ Unlocked(scoped.m)) =>
          /\ last'.result = "ok"
          /\ \A i \in 1 .. Len(modules'[scoped.m]) : modules'[scoped.m][i] # scoped.x

C16Returns == [][C16Normal]_vars

(***************************************************************************)
(* Properties of the injected function (SpecBinder)                        *)
(***************************************************************************)
\* what the argument of a parameter the caller left out is: nothing when
\* the Module has no injectable for the annotation, else an instance of the
\* injectable the Module resolves the annotation to now (of a
\* SingletonInjectable the one it holds, of a SimpleInjectable one that no
\* injectable holds)
Injected(n) ==
    LET g == getitem(FunctionModule, Annotation[n])
    IN  /\ g.tag = "NoInjectable" => last.arguments[n] = 0
        /\ g.tag = "ok" =>
              /\ last.arguments[n] \in 1 .. made
              /\ kind[g.inj] = "SingletonInjectable" =>
                    last.arguments[n] = cache[g.inj]
              /\ kind[g.inj] = "SimpleInjectable" =>
                    \A i \in InjIds : cache[i] # last.arguments[n]

\* C18: when the Module of a function that has been called has gained, by
\* an update on the Module itself, an injectable for an annotation it could
\* not resolve, the function has been told and holds fresh unread
\* dependencies, and its next bind reads the new injectable for every
\* parameter and gives each an instance of it; and every call, and every
\* bind after the first call, has given each parameter the caller left out
\* an instance of what the Module resolves its annotation to.
Thm_C18 ==
    /\ (/\ last.op = "update" /\ last.m = FunctionModule /\ last.result = "ok"
        /\ ScopeKey \in last.accepted
        /\ last.found[ScopeKey] = NotFound
        /\ first_getitem(modules[FunctionModule], ScopeKey, {FunctionModule}).tag
               = "NoInjectable"
        /\ function_listens) =>
          LET o == bind_outcome(dependencies, NoArguments)
          IN  /\ TheFunction \in last.recorded
              /\ dependencies = Unset
              /\ o.tag = "ok"
              /\ o.deps = [state |-> "set",
                           mapping |-> [n \in Names |-> last.inj]]
              /\ \A n \in Names : o.arguments[n] > made
    /\ (/\ last.op \in {"call", "bind"}
        /\ last.result \in {"ok", "TypeError"}
        /\ function_listens) =>
          \A n \in Names : last.explicit[n] = 0 => Injected(n)

\* the Module of the function, which uses no other Module and had no
\* injectable for the annotation, got one by an update; the function, called
\* before, was told, and its next bind will give the parameter an instance
\* of the new injectable
W_C18 ==
    /\ last.op = "update" /\ last.m = FunctionModule /\ last.result = "ok"
    /\ last.found[ScopeKey] = NotFound
    /\ modules[FunctionModule] = <<>>
    /\ TheFunction \in last.recorded
    /\ dependencies = Unset
    /\ bind_outcome(dependencies, NoArguments).tag = "ok"
    /\ bind_outcome(dependencies, NoArguments).arguments["x"] > made

\* the dependencies that have been read are those a new resolution gives
BinderCurrent ==
    dependencies.state = "set" =>
        resolver(FunctionModule) = [tag |-> "ok", mapping |-> dependencies.mapping]

\* a Module other than the function's, which the function's Module uses
\* directly or through others, registers an injectable or changes its used
\* list: every Module using it re-dispatches the event and the function, a
\* listener of its own Module only, replaces its dependencies by unread ones
C19Step ==
    (/\ last'.op \in {"update", "use", "stop_using", "change_priority"}
     /\ last'.result = "ok"
     /\ (records' # records \/ modules' # modules)
     /\ last'.m # FunctionModule
     /\ function_listens
     /\ FunctionModule \in Users(last'.m)) =>
        /\ Users(last'.m) \subseteq last'.heard
        /\ Users(last'.m) \subseteq last'.recorded
        /\ TheFunction \in last'.recorded
        /\ dependencies' = Unset

\* C19: every change in a Module under the function's Module is
\* re-dispatched up to the function as C19Step says, so that the next bind
\* reads the Module anew; and dependencies that have been read are never out
\* of date: they are what the function's Module resolves the annotations to.
Thm_C19 == []BinderCurrent /\ [][C19Step]_vars

\* Module C, which the function's Module A uses through B only, has
\* registered the first injectable of the annotation; B and A re-dispatched
\* the event, the function was told, and its next read gives C's injectable
W_C19 ==
    /\ last.op = "update" /\ last.m = "C" /\ last.result = "ok"
    /\ modules["A"] = <<"B">> /\ modules["B"] = <<"C">>
    /\ records["A"][ScopeKey] = NoRecord
    /\ {"A", "B", TheFunction} \subseteq last.recorded
    /\ dependencies = Unset
    /\ read_mapping(dependencies).deps.mapping["x"] = last.inj

\* what a step does to the dependencies of the function: a step other than
\* bind and __call__ leaves them or replaces them by unread ones; a bind or
\* call leaves dependencies that have been read as they are, and when it
\* reads unread ones, the mapping is what the Module resolves the
\* annotations to at that moment
C39Step ==
    /\ last'.op \notin {"call", "bind"} =>
           dependencies' = dependencies \/ dependencies' = Unset
    /\ last'.op \in {"call", "bind"} =>
           /\ dependencies.state = "set" => dependencies' = dependencies
           /\ dependencies.state # "set" /\ dependencies'.state = "set" =>
                  resolver(FunctionModule)
                      = [tag |-> "ok", mapping |-> dependencies'.mapping]

\* C39: an event only replaces the dependencies of the function by unread
\* ones, whatever the number of events; the mapping is built by the first
\* bind after the last event and by nothing else, once, from what the
\* Module resolves the annotations to when that bind reads it.
Thm_C39 == [][C39Step]_vars

\* after an update heard by the function, a bind has read the unread
\* dependencies and has built the mapping with the injectable of the update
W_C39 ==
    /\ last.op = "bind" /\ last.result = "ok"
    /\ last.built
    /\ dependencies.state = "set"
    /\ \A n \in Names : dependencies.mapping[n] # 0
    /\ records["C"][ScopeKey] # NoRecord
    /\ records["A"][ScopeKey] = NoRecord

\* C20: in the arguments bind returns, a parameter the caller supplied has
\* the caller's value, whether or not the dependencies hold an injectable
\* for it, and a parameter the caller did not supply has an instance of its
\* dependency, if it has one, and no argument otherwise.
Thm_C20 ==
    (last.op \in {"call", "bind"} /\ last.result \in {"ok", "TypeError"}) =>
        \A n \in Names :
            /\ last.explicit[n] # 0 => last.arguments[n] = last.explicit[n]
            /\ last.explicit[n] = 0 =>
                  /\ last.arguments[n] \in 0 .. made
                  /\ dependencies.mapping[n] # 0 <=> last.arguments[n] # 0

\* a call whose first parameter the caller supplied and whose second one
\* was injected, the dependencies holding an injectable for both
W_C20 ==
    /\ last.op = "call" /\ last.result = "ok"
    /\ last.explicit["x"] = ExplicitValue /\ last.explicit["y"] = 0
    /\ last.arguments["x"] = ExplicitValue
    /\ last.arguments["y"] > 0
    /\ dependencies.mapping["x"] # 0 /\ dependencies.mapping["y"] # 0

\* a bind or call in which the caller supplies every parameter asks no
\* injectable for an instance
C40OrigStep ==
    (/\ last'.op \in {"call", "bind"}
     /\ \A n \in Names : last'.explicit[n] # 0) =>
        /\ made' = made
        /\ cache' = cache
        /\ last'.result # "InjectionError"

\* C40: bind does not ask the injectable of a parameter the caller supplied
\* for an instance: no factory is called for it, no singleton instance is
\* made and cached, no InjectionError of a ShouldBeInjectable is raised.
Orig_C40 == [][C40OrigStep]_vars

\* no registry of the Module or of a Module it uses, directly or through
\* others, binds the key
BoundNowhere(m, k) ==
    \A u \in Under(m) :
        \A i \in 1 .. Len(standardize_inputs(k)) :
            ~InRecords(u, standardize_inputs(k)[i])

\* C21: a parameter whose annotation no registry of the function's Module
\* binds is left out of the dependencies: bind raises nothing and returns
\* the caller's arguments and nothing else (no None, no default), and a call
\* raises TypeError exactly when the caller has left out such a parameter.
Orig_C21 ==
    (/\ last.op \in {"call", "bind"}
     /\ \A n \in Names : BoundNowhere(FunctionModule, Annotation[n])) =>
        /\ last.arguments = last.explicit
        /\ last.op = "bind" => last.result = "ok"
        /\ last.op = "call" =>
              last.result = IF \E n \in Names : last.explicit[n] = 0
                            THEN "TypeError" ELSE "ok"

\* whenever the lookup of the annotations fails with NoInjectable, bind and
\* call answer as C21 says and the dependencies are empty
C21Returns ==
    (/\ last.op \in {"call", "bind"}
     /\ \A n \in Names : getitem(FunctionModule, Annotation[n]).tag = "NoInjectable") =>
        /\ last.arguments = last.explicit
        /\ \A n \in Names : dependencies.mapping[n] = 0
        /\ last.op = "bind" => last.result = "ok"
        /\ last.op = "call" =>
              last.result = IF \E n \in Names : last.explicit[n] = 0
                            THEN "TypeError" ELSE "ok"

(***************************************************************************)
(* Properties of the lookups (SpecLookup)                                  *)
(***************************************************************************)
\* C22: for a key that no registry of the Module or of a Module it uses
\* binds, find_instance raises NoInjectable and get_instance returns None.
Orig_C22 ==
    (last.op \in {"find_instance", "get_instance"} /\ BoundNowhere(last.m, last.k)) =>
        last.result = IF last.op = "find_instance" THEN "NoInjectable" ELSE "None"

\* every find_instance whose lookup fails with NoInjectable raises it and
\* every such get_instance returns None; neither invokes a factory or
\* changes a registry, a used list, a subscription or what is locked
C22Lookup ==
    (/\ last'.op \in {"find_instance", "get_instance"}
     /\ getitem(last'.m, last'.k).tag = "NoInjectable") =>
        /\ last'.result = IF last'.op = "find_instance" THEN "NoInjectable" ELSE "None"
        /\ last'.inst = 0
        /\ UNCHANGED <<records, kind, cache, made, modules, listeners>>

C22Returns == [][C22Lookup]_vars

Done(t, op) == frames[t].op = op /\ frames[t].pc = "done"

\* C24: when both threads have registered, in normal mode, an injectable for
\* the key, each of them having entered update while the key was not bound,
\* exactly one of the two calls has written its Record and the other one
\* has raised the conflict error.
Orig_C24 ==
    (\A t \in Threads : Done(t, "update") /\ frames[t].found = "none") =>
        \E t \in Threads :
            /\ frames[t].result = "ok"
            /\ records[SharedModule][ScopeKey] = Record(frames[t].inj, "normal")
            /\ \A u \in Threads \ {t} : frames[u].result = "RuntimeError"

\* C25: when both threads have resolved the key and got an instance of the
\* same SingletonInjectable, they have got the same instance (its factory
\* has been invoked once).
Orig_C25 ==
    \A t, u \in Threads :
        (/\ Done(t, "find_instance") /\ frames[t].result = "ok"
         /\ Done(u, "find_instance") /\ frames[u].result = "ok"
         /\ frames[t].inj = frames[u].inj
         /\ frames[t].kind # "SimpleInjectable"
         /\ kind[frames[t].inj] = "SingletonInjectable") =>
            frames[t].inst = frames[u].inst

\* C26: the factory of the Lazy is invoked at most once, is_set is true
\* exactly when an invocation has completed, and every thread that has
\* forced the Lazy has got the value of that invocation, none an error.
Orig_C26 ==
    /\ lazy.calls <= 1
    /\ lazy.is_set <=> lazy.calls > 0
    /\ \A t \in Threads :
          Done(t, "force") =>
              /\ frames[t].result = "ok"
              /\ lazy.is_set
              /\ frames[t].inst = lazy.cached

\* what holds of the Lazy under every interleaving: one invocation of the
\* factory at most, is_set true from its completion on, and the same value
\* for every thread that got one; a thread that forces the Lazy while the
\* factory runs in the other thread gets ValueError
C26Step ==
    /\ lazy.calls <= 1
    /\ lazy.is_set <=> lazy.calls > 0
    /\ lazy.is_set => lazy'.is_set /\ lazy'.cached = lazy.cached
    /\ \A t \in Threads :
          Done(t, "force") =>
              /\ frames[t].result \in {"ok", "ValueError"}
              /\ frames[t].result = "ok" =>
                    (lazy.is_set /\ frames[t].inst = lazy.cached)

C26Returns == [][C26Step]_vars

(***************************************************************************)
(* Properties of the used list under every operation on it (SpecCompose)   *)
(***************************************************************************)
\* C29: in every state reached through use, stop_using, change_priority,
\* init_modules and use_temporarily, whether the calls return or raise, the
\* used list of a Module does not contain the Module itself and contains
\* no Module twice.
Thm_C29 ==
    \A m \in Modules :
        \A i \in 1 .. Len(modules[m]) :
            /\ modules[m][i] # m
            /\ \A j \in 1 .. Len(modules[m]) : modules[m][j] = modules[m][i] => j = i

\* init_modules was given the same Module twice: its second use has raised
\* ModuleError and the Module is used once
W_C29 ==
    /\ pending.state = "ModuleError"
    /\ Len(pending.given) = 2
    /\ pending.given[1] = pending.given[2]
    /\ modules[pending.m] = <<pending.given[1]>>

\* the init_modules in progress has returned or raised
Over == pending.state \notin {"-", "running"}

\* m1..mn are distinct and different from the Module
DistinctOthers(given, m) ==
    \A i \in 1 .. Len(given) :
        /\ given[i] # m
        /\ \A j \in 1 .. Len(given) : given[j] = given[i] => j = i

\* one removed event per Module used before, then one added event per
\* Module given
RemovedThenAdded(before, given) ==
    [i \in 1 .. Len(before) |-> [type |-> "removed", x |-> before[i]]]
        \o [i \in 1 .. Len(given) |-> [type |-> "added", x |-> given[i]]]

\* the used list is exactly m1..mn and the events are those of the claim
C30Done ==
    /\ pending.state = "returned"
    /\ modules[pending.m] = pending.given
    /\ pending.events = RemovedThenAdded(pending.before, pending.given)

\* C30 as stated: init_modules(m1..mn) on a Module that is not locked,
\* m1..mn distinct and different from the Module, leaves the used list
\* equal to m1..mn in the given order, having emitted one removed event
\* per Module used before and then one added event per Module given.
Orig_C30 ==
    (/\ Over
     /\ pending.locked[pending.m] = "false"
     /\ DistinctOthers(pending.given, pending.m)) => C30Done

\* what C30 leaves out: no Module using this one is locked, and none of
\* the Modules given but the last is locked or uses this Module, directly
\* or through others, when the call is made
C30Free ==
    /\ \A p \in Users(pending.m) : pending.locked[p] = "false"
    /\ \A i \in 1 .. Len(pending.given) - 1 :
          /\ pending.locked[pending.given[i]] = "false"
          /\ pending.m \notin Under(pending.given[i])

\* C30 amended: the same, when moreover no Module that uses this one is
\* locked and none of m1..mn but the last is locked or uses this Module.
Thm_C30 ==
    (/\ Over
     /\ pending.locked[pending.m] = "false"
     /\ DistinctOthers(pending.given, pending.m)
     /\ C30Free) => C30Done

\* a Module that used one Module was given this one and then a locked
\* one, and now uses exactly these two
W_C30 ==
    /\ pending.state = "returned"
    /\ pending.locked[pending.m] = "false"
    /\ DistinctOthers(pending.given, pending.m)
    /\ C30Free
    /\ Len(pending.before) = 1
    /\ Len(pending.given) = 2
    /\ pending.before[1] = pending.given[1]
    /\ pending.locked[pending.given[2]] = "true"
    /\ modules[pending.m] = pending.given

(***************************************************************************)
(* Properties of the graph of used Modules (SpecGraph)                     *)
(***************************************************************************)
\* the step is a use of a Module that uses this one, directly or through
\* others, and is neither this Module nor in its used list
ClosesCycle ==
    /\ last'.op = "use"
    /\ last'.x # last'.m
    /\ ~InUse(last'.m, last'.x)
    /\ last'.m \in Under(last'.x)

\* C31: use refuses only the Module itself and a Module of the used list:
\* a use that closes a cycle of two or more Modules never raises
\* ModuleError, and where no lock stands in its way it returns and the
\* Module is used, the cycle being closed.
C31Step ==
    ClosesCycle =>
        /\ last'.result # "ModuleError"
        /\ Unlocked(last'.m) =>
              /\ last'.result = "ok"
              /\ modules'[last'.m] =
                    move_module(Append(modules[last'.m], last'.x), last'.x,
                                last'.priority)

Thm_C31 == [][C31Step]_vars

\* the last call was a use that returned and closed a cycle through all
\* three Modules
W_C31 ==
    /\ last.op = "use" /\ last.result = "ok"
    /\ InUse(last.m, last.x)
    /\ last.m \in Under(last.x)
    /\ \A p \in Modules : Len(modules[p]) = 1
    /\ \A p \in Modules : Under(p) = Modules

\* C32: in every graph reached through use, stop_using and
\* change_priority, a lookup, a membership test and is_locked come to an
\* end with their own answers: the lookup with a Record or NoInjectable,
\* the other two with true or false.
Orig_C32 ==
    /\ last.op = "find_instance" =>
          last.result \in {"ok", "NoInjectable", "InjectionError"}
    /\ last.op = "contains" => last.result \in {"true", "false"}
    /\ \A m \in Modules : is_locked(m) \in {"true", "false"}

\* where no Module is under itself the three come to an end as C32 says
C32Acyclic ==
    (\A p \in Modules : \A q \in Uses(p) : p \notin Under(q)) =>
        /\ \A m \in Modules : is_locked(m) \in {"true", "false"}
        /\ \A m \in Modules :
              getitem(m, ScopeKey).tag \in {"ok", "NoInjectable"}
        /\ \A m \in Modules : contains(m, ScopeKey) \in {"true", "false"}

(***************************************************************************)
(* Properties of the calls of two threads on the used list (SpecThreads)   *)
(***************************************************************************)
\* C36: when two threads call use of the same Module on a Module that does
\* not use it, in every interleaving one call returns and the other raises
\* ModuleError: the two calls never both return.
Orig_C36 ==
    (/\ Done("T1", "use") /\ Done("T2", "use")
     /\ frames["T1"].x = frames["T2"].x) =>
        ~(frames["T1"].result = "ok" /\ frames["T2"].result = "ok")

\* the used list holds the Module once all the same, and the Module
\* listens once: what the second call changes is the place of the Module
C36Once ==
    /\ \A i, j \in 1 .. Len(modules[SharedModule]) :
          modules[SharedModule][i] = modules[SharedModule][j] => i = j
    /\ \A t \in Threads :
          (Done(t, "use") /\ frames[t].result = "ok") =>
              /\ InUse(SharedModule, frames[t].x)
              /\ SharedModule \in listeners[frames[t].x]


(***************************************************************************)
(* Properties of the setup of the injected function (SpecSetup)            *)
(***************************************************************************)
InCall(t) == frames[t].op = "call"

\* the setup task has been called and has returned, and is marked done
SetupDone ==
    /\ setup_queue.ran = 1
    /\ setup_queue.unfinished = 0
    /\ dependencies.state # "empty"

Bound(t) ==
    \/ frames[t].pc = "bind"
    \/ frames[t].pc = "done" /\ frames[t].result \notin SignatureOutcomes \ {"ok"}

\* C37: the setup of an injected function (update of the dependencies and
\* subscription to the Module) is never run before the first call, is run
\* at most once however many calls and threads there are, and no call
\* reaches bind before the setup has run and returned
Thm_C37 ==
    /\ setup_queue.ran <= 1
    /\ (\A t \in Threads : ~InCall(t)) =>
           setup_queue.ran = 0 /\ dependencies.state = "empty"
    /\ \A t \in Threads : InCall(t) /\ Bound(t) => SetupDone

\* both threads have called the function and returned from it, one setup
W_C37 ==
    /\ \A t \in Threads :
           InCall(t) /\ frames[t].pc = "done" /\ frames[t].result = "ok"
    /\ setup_queue.ran = 1
    /\ setup_queue.closed

\* C38: after a setup task has raised in one call, no call waits in
\* queue.join() for a task that nobody is running
Orig_C38 ==
    \A t \in Threads :
        InCall(t) /\ frames[t].pc = "join" =>
            \/ setup_queue.unfinished = 0
            \/ \E u \in Threads : frames[u].pc \in {"task", "task_done"}

\* the exception of the setup task reaches the caller, and the task stays
\* unfinished in a queue that is never closed
C38Raised ==
    \A t \in Threads :
        InCall(t) /\ frames[t].pc = "done" /\ frames[t].result = "NameError" =>
            /\ setup_queue.unfinished = 1
            /\ ~setup_queue.closed
            /\ setup_queue.tasks = 0

====
